---- MODULE Spec2Model ----
(***************************************************************************)
(* Model of the token analysis service: the risk scorer (computeRiskScore, *)
(* src/src/lib/helius.ts) and the analyze request handler (GET,            *)
(* src/unnamed/part_002) that collects the evidence and calls it.          *)
(*                                                                         *)
(* Conventions.                                                            *)
(*  - An optional value (undefined / null in the source) is a sequence of  *)
(*    length 0 or 1: None is absent, Some(v) is present.                   *)
(*  - Percentages are kept in hundredths of a percent, the integer the     *)
(*    handler computes before its final "/ 100": Pct(n) is n percent.      *)
(*  - accountAgeDays is kept in seconds, the numerator the handler divides *)
(*    by 86400: Days(n) is n days.                                         *)
(*  - Strings are TLA+ strings; Len, SubSeq and \o act on them.            *)
(***************************************************************************)
EXTENDS Integers, Sequences, FiniteSets, TLC

VARIABLES
    env,                   \* process.env: HELIUS_API_KEY, BIRDEYE_API_KEY
    chain,                 \* what the providers hold about the mint and its creator
    pc,                    \* position of the GET handler
    mint,                  \* the request's mint parameter, trimmed
    tokenMeta,             \* GET locals tokenName, tokenSymbol
    canMintUnlimited,      \* GET local
    creationTx,            \* GET local: mintTxsAsc[0]
    creatorTxsDesc,        \* GET local: the creator's recent sample
    creatorAnalysis,       \* GET local
    holderStats,           \* GET local
    tokenMarket,           \* GET local
    creatorPreviousTokens, \* GET local
    failed,                \* the calls of the request that failed so far
    response,              \* the NextResponse returned, None while running
    args,                  \* scorer harness: the evidence bundle supplied
    result,                \* scorer harness: the RiskResult returned
    again                  \* scorer harness: the RiskResult of a second call on the same objects

vars == <<env, chain, pc, mint, tokenMeta, canMintUnlimited, creationTx, creatorTxsDesc,
          creatorAnalysis, holderStats, tokenMarket, creatorPreviousTokens,
          failed, response, args, result, again>>

handlerVars == <<env, chain, pc, mint, tokenMeta, canMintUnlimited, creationTx, creatorTxsDesc,
                 creatorAnalysis, holderStats, tokenMarket,
                 creatorPreviousTokens, failed, response>>

scorerVars == <<args, result, again>>

(***************************************************************************)
(* Optional values and arithmetic helpers                                  *)
(***************************************************************************)
None == <<>>

Some(v) == <<v>>

IsDef(o) == Len(o) > 0

Val(o) == o[1]

Max(a, b) == IF a >= b THEN a ELSE b

Min(a, b) == IF a <= b THEN a ELSE b

RECURSIVE SumOver(_, _)
\* s[1] + ... + s[n]
SumOver(s, n) == IF n = 0 THEN 0 ELSE s[n] + SumOver(s, n - 1)

SumSeq(s) == SumOver(s, Len(s))

RECURSIVE Flatten(_)
\* concatenation of a sequence of sequences, in order
Flatten(ss) == IF ss = <<>> THEN <<>> ELSE Head(ss) \o Flatten(Tail(ss))

\* n percent, in hundredths of a percent
Pct(n) == n * 100

SecondsPerDay == 86400

\* n days, in seconds
Days(n) == n * SecondsPerDay

(***************************************************************************)
(* String functions of the JavaScript runtime used by the source           *)
(***************************************************************************)
LowerLetters == "abcdefghijklmnopqrstuvwxyz"

UpperLetters == "ABCDEFGHIJKLMNOPQRSTUVWXYZ"

\* the upper-case letter of each lower-case letter
UpperOf ==
    [c \in {SubSeq(LowerLetters, i, i) : i \in 1..Len(LowerLetters)} |->
        LET i == CHOOSE j \in 1..Len(LowerLetters) : SubSeq(LowerLetters, j, j) = c
        IN SubSeq(UpperLetters, i, i)]

\* the lower-case letter of each upper-case letter
LowerOf ==
    [c \in {SubSeq(UpperLetters, i, i) : i \in 1..Len(UpperLetters)} |->
        LET i == CHOOSE j \in 1..Len(UpperLetters) : SubSeq(UpperLetters, j, j) = c
        IN SubSeq(LowerLetters, i, i)]

CharToUpper(c) == IF c \in DOMAIN UpperOf THEN UpperOf[c] ELSE c

CharToLower(c) == IF c \in DOMAIN LowerOf THEN LowerOf[c] ELSE c

RECURSIVE toUpperCase(_)
toUpperCase(s) ==
    IF Len(s) = 0 THEN ""
    ELSE CharToUpper(SubSeq(s, 1, 1)) \o toUpperCase(SubSeq(s, 2, Len(s)))

RECURSIVE toLowerCase(_)
toLowerCase(s) ==
    IF Len(s) = 0 THEN ""
    ELSE CharToLower(SubSeq(s, 1, 1)) \o toLowerCase(SubSeq(s, 2, Len(s)))

startsWith(s, p) == Len(p) <= Len(s) /\ SubSeq(s, 1, Len(p)) = p

includes(s, p) ==
    \E i \in 1..(Len(s) - Len(p) + 1) : SubSeq(s, i, i + Len(p) - 1) = p

RECURSIVE trimStart(_)
trimStart(s) ==
    IF Len(s) > 0 /\ SubSeq(s, 1, 1) = " " THEN trimStart(SubSeq(s, 2, Len(s))) ELSE s

RECURSIVE trimEnd(_)
trimEnd(s) ==
    IF Len(s) > 0 /\ SubSeq(s, Len(s), Len(s)) = " "
    THEN trimEnd(SubSeq(s, 1, Len(s) - 1)) ELSE s

trim(s) == trimEnd(trimStart(s))

(***************************************************************************)
(* Risk scorer: src/src/lib/helius.ts, 382-700                             *)
(***************************************************************************)
TOKEN_CREATION_TYPES ==
    {"CREATE", "CREATE_MINT_METADATA", "CREATE_MASTER_EDITION", "TOKEN_MINT",
     "MINT_TO", "INITIALIZE", "INITIALIZE_MINT", "NFT_MINT", "COMPRESSED_NFT_MINT"}

\* tx.type ?? ""
TypeOrEmpty(tx) == IF IsDef(tx.type) THEN Val(tx.type) ELSE ""

\* txLooksLikeTokenCreation without the substring fallback
txLooksLikeTokenCreationPrefixOnly(tx) ==
    LET t == toUpperCase(TypeOrEmpty(tx))
    IN \E prefix \in TOKEN_CREATION_TYPES : t = prefix \/ startsWith(t, prefix \o "_")

txLooksLikeTokenCreation(tx) ==
    LET t == toUpperCase(TypeOrEmpty(tx))
    IN IF \E prefix \in TOKEN_CREATION_TYPES : t = prefix \/ startsWith(t, prefix \o "_")
       THEN TRUE
       ELSE IF includes(t, "MINT") \/ includes(t, "CREATE") \/ includes(t, "INITIALIZE")
            THEN TRUE
            ELSE FALSE

\* what one rule does: the change it applies to score and the factors it pushes
Skip == [score |-> 0, factors |-> <<>>]

Hit(delta, id, severity, impact) ==
    [score |-> delta,
     factors |-> <<[id |-> id, severity |-> severity, impact |-> impact]>>]

\* EmissionRule treating an unknown mint authority as an active one
EmissionRuleUnknownAsActive(ca) ==
    IF ca.canMintUnlimited # Some(FALSE)
    THEN Hit(-20, "unlimited_mint", "critical", -20)
    ELSE Hit(10, "fixed_supply", "positive", 10)

\* 1. Emission: unlimited vs fixed supply
EmissionRule(ca) ==
    IF ca.canMintUnlimited = Some(TRUE)
    THEN Hit(-20, "unlimited_mint", "critical", -20)
    ELSE IF ca.canMintUnlimited = Some(FALSE)
         THEN Hit(10, "fixed_supply", "positive", 10)
         ELSE Skip

\* holderStats?.creatorHoldPercent !== undefined
HasCreatorHold(hs) == IsDef(hs) /\ IsDef(Val(hs).creatorHoldPercent)

\* CreatorSoldRule with the pushed impact of creator_sold not matching the
\* delta applied to score
CreatorSoldRuleImpactSlip(hs) ==
    IF HasCreatorHold(hs)
    THEN LET p == Val(Val(hs).creatorHoldPercent)
         IN IF p < Pct(1) THEN Hit(-18, "creator_sold", "critical", -8)
            ELSE IF p >= Pct(10) THEN Hit(8, "creator_holds", "positive", 8)
                 ELSE Skip
    ELSE Skip

\* CreatorSoldRule crediting a holding creator with 10 points
CreatorSoldRuleHoldsTen(hs) ==
    IF HasCreatorHold(hs)
    THEN LET p == Val(Val(hs).creatorHoldPercent)
         IN IF p < Pct(1) THEN Hit(-18, "creator_sold", "critical", -18)
            ELSE IF p >= Pct(10) THEN Hit(10, "creator_holds", "positive", 10)
                 ELSE Skip
    ELSE Skip

\* 2. Creator sold?
CreatorSoldRule(hs) ==
    IF HasCreatorHold(hs)
    THEN LET p == Val(Val(hs).creatorHoldPercent)
         IN IF p < Pct(1) THEN Hit(-18, "creator_sold", "critical", -18)
            ELSE IF p >= Pct(10) THEN Hit(8, "creator_holds", "positive", 8)
                 ELSE Skip
    ELSE Skip

\* SerialCreatorRule crediting first_or_few only when no creation was counted
SerialCreatorRuleCreditsNoneOnly(createdCount) ==
    IF createdCount >= 10 THEN Hit(-25, "serial_creator", "critical", -25)
    ELSE IF createdCount >= 5 THEN Hit(-15, "multiple_tokens", "warning", -15)
         ELSE IF createdCount < 1 THEN Hit(10, "first_or_few", "positive", 10)
              ELSE Skip

\* Serial creator: many tokens created
SerialCreatorRule(createdCount) ==
    IF createdCount >= 10 THEN Hit(-25, "serial_creator", "critical", -25)
    ELSE IF createdCount >= 5 THEN Hit(-15, "multiple_tokens", "warning", -15)
         ELSE IF createdCount <= 1 THEN Hit(10, "first_or_few", "positive", 10)
              ELSE Skip

\* AccountAgeRule without the "ageDays !== null" guard: null compares as 0
AccountAgeRuleNoNullGuard(ca) ==
    LET ageDays == IF IsDef(ca.accountAgeDays) THEN Val(ca.accountAgeDays) ELSE 0
    IN IF ageDays < Days(1)
       THEN Hit(-20, "brand_new_account", "critical", -20)
       ELSE IF ageDays < Days(7)
            THEN Hit(-10, "new_account", "warning", -10)
            ELSE IF ageDays >= Days(90)
                 THEN Hit(10, "established_account", "positive", 10)
                 ELSE Skip

\* Account age
AccountAgeRule(ca) ==
    LET ageDays == ca.accountAgeDays
    IN IF IsDef(ageDays)
       THEN IF Val(ageDays) < Days(1)
            THEN Hit(-20, "brand_new_account", "critical", -20)
            ELSE IF Val(ageDays) < Days(7)
                 THEN Hit(-10, "new_account", "warning", -10)
                 ELSE IF Val(ageDays) >= Days(90)
                      THEN Hit(10, "established_account", "positive", 10)
                      ELSE Skip
       ELSE Skip

\* HighActivityRule firing only for a wallet younger than 90 days
HighActivityRuleYoungWalletOnly(ca) ==
    LET totalTx == ca.totalTxCount
    IN IF totalTx > 500 /\ IsDef(ca.accountAgeDays) /\ Val(ca.accountAgeDays) < Days(90)
       THEN Hit(-5, "very_high_activity", "warning", -5) ELSE Skip

\* HighActivityRule firing from 51 transactions on
HighActivityRuleAboveFifty(ca) ==
    LET totalTx == ca.totalTxCount
    IN IF totalTx > 50 THEN Hit(-5, "very_high_activity", "warning", -5) ELSE Skip

\* Very high activity (possible bot)
HighActivityRule(ca) ==
    LET totalTx == ca.totalTxCount
    IN IF totalTx > 500 THEN Hit(-5, "very_high_activity", "warning", -5) ELSE Skip

\* Very few holders
FewHoldersRule(hs) ==
    IF IsDef(hs) /\ Val(hs).totalHolders > 0
    THEN LET n == Val(hs).totalHolders
         IN IF n <= 2 THEN Hit(-18, "very_few_holders", "critical", -18)
            ELSE IF n <= 5 THEN Hit(-10, "few_holders", "warning", -10)
                 ELSE IF n <= 15 THEN Hit(-4, "low_holder_count", "warning", -4)
                      ELSE Skip
    ELSE Skip

\* Holder concentration: top 10 hold too much
ConcentrationRule(hs) ==
    IF IsDef(hs) /\ Val(hs).top10Percent >= 0
    THEN LET h == Val(hs)
         IN IF h.top10Percent >= Pct(80)
            THEN Hit(-15, "extreme_concentration", "critical", -15)
            ELSE IF h.top10Percent >= Pct(50)
                 THEN Hit(-8, "high_concentration", "warning", -8)
                 ELSE IF h.top10Percent <= Pct(30) /\ h.totalHolders >= 100
                      THEN Hit(5, "distributed_holders", "positive", 5)
                      ELSE Skip
    ELSE Skip

\* holderStats?.creatorConnectedHolders ?? []
ConnectedOf(hs) ==
    IF IsDef(hs) /\ IsDef(Val(hs).creatorConnectedHolders)
    THEN Val(Val(hs).creatorConnectedHolders)
    ELSE <<>>

\* ConnectedRule turning critical only above 20 percent
ConnectedRuleAboveTwenty(hs) ==
    LET connected == ConnectedOf(hs)
        totalTop10ConnectedPercent ==
            SumSeq([i \in 1..Len(connected) |-> connected[i].percent])
    IN IF Len(connected) > 0
       THEN IF Len(connected) >= 3 \/ totalTop10ConnectedPercent > Pct(20)
            THEN Hit(-14, "creator_connected_holders", "critical", -14)
            ELSE Hit(-6, "creator_connected_holders", "warning", -6)
       ELSE Skip

\* Connection: top holders that received from creator
ConnectedRule(hs) ==
    LET connected == ConnectedOf(hs)
        totalTop10ConnectedPercent ==
            SumSeq([i \in 1..Len(connected) |-> connected[i].percent])
    IN IF Len(connected) > 0
       THEN IF Len(connected) >= 3 \/ totalTop10ConnectedPercent >= Pct(20)
            THEN Hit(-14, "creator_connected_holders", "critical", -14)
            ELSE Hit(-6, "creator_connected_holders", "warning", -6)
       ELSE Skip

\* LiquidityRule with the low tier ending below 500 USD
LiquidityRuleLowBelow500(tm) ==
    IF IsDef(tm) /\ IsDef(Val(tm).liquidityUsd) /\ Val(Val(tm).liquidityUsd) >= 0
    THEN LET usd == Val(Val(tm).liquidityUsd)
         IN IF usd < 500 THEN Hit(-12, "low_liquidity", "critical", -12)
            ELSE IF usd < 10000 THEN Hit(-5, "moderate_liquidity", "warning", -5)
                 ELSE IF usd >= 50000 THEN Hit(5, "good_liquidity", "positive", 5)
                      ELSE Skip
    ELSE Skip

\* 3. Liquidity (LP volume in USD)
LiquidityRule(tm) ==
    IF IsDef(tm) /\ IsDef(Val(tm).liquidityUsd) /\ Val(Val(tm).liquidityUsd) >= 0
    THEN LET usd == Val(Val(tm).liquidityUsd)
         IN IF usd < 2000 THEN Hit(-12, "low_liquidity", "critical", -12)
            ELSE IF usd < 10000 THEN Hit(-5, "moderate_liquidity", "warning", -5)
                 ELSE IF usd >= 50000 THEN Hit(5, "good_liquidity", "positive", 5)
                      ELSE Skip
    ELSE Skip

\* FreshHoldersRule pushing one factor for each window that is exceeded
FreshHoldersRulePerWindow(tm) ==
    IF IsDef(tm) /\ (IsDef(Val(tm).freshHolders1dPercent) \/ IsDef(Val(tm).freshHolders7dPercent))
    THEN LET fresh1d == IF IsDef(Val(tm).freshHolders1dPercent)
                        THEN Val(Val(tm).freshHolders1dPercent) ELSE 0
             fresh7d == IF IsDef(Val(tm).freshHolders7dPercent)
                        THEN Val(Val(tm).freshHolders7dPercent) ELSE 0
             day == IF fresh1d > 50 THEN Hit(-5, "very_fresh_holders", "warning", -5) ELSE Skip
             week == IF fresh7d > 70 THEN Hit(-5, "very_fresh_holders", "warning", -5) ELSE Skip
         IN [score |-> day.score + week.score, factors |-> day.factors \o week.factors]
    ELSE Skip

\* 4. Fresh holders (% new in 1D / 7D)
FreshHoldersRule(tm) ==
    IF IsDef(tm) /\ (IsDef(Val(tm).freshHolders1dPercent) \/ IsDef(Val(tm).freshHolders7dPercent))
    THEN LET fresh1d == IF IsDef(Val(tm).freshHolders1dPercent)
                        THEN Val(Val(tm).freshHolders1dPercent) ELSE 0
             fresh7d == IF IsDef(Val(tm).freshHolders7dPercent)
                        THEN Val(Val(tm).freshHolders7dPercent) ELSE 0
         IN IF fresh1d > 50 \/ fresh7d > 70
            THEN Hit(-5, "very_fresh_holders", "warning", -5)
            ELSE Skip
    ELSE Skip

\* RuleResults with the liquidity block moved ahead of the holder blocks
RuleResultsLiquidityEarly(ca, createdCount, hs, tm) ==
    << EmissionRule(ca),
       CreatorSoldRule(hs),
       SerialCreatorRule(createdCount),
       AccountAgeRule(ca),
       HighActivityRule(ca),
       LiquidityRule(tm),
       FewHoldersRule(hs),
       ConcentrationRule(hs),
       ConnectedRule(hs),
       FreshHoldersRule(tm) >>

\* the rule blocks of computeRiskScore in the order the function runs them
RuleResults(ca, createdCount, hs, tm) ==
    << EmissionRule(ca),
       CreatorSoldRule(hs),
       SerialCreatorRule(createdCount),
       AccountAgeRule(ca),
       HighActivityRule(ca),
       FewHoldersRule(hs),
       ConcentrationRule(hs),
       ConnectedRule(hs),
       LiquidityRule(tm),
       FreshHoldersRule(tm) >>

\* score = Math.max(0, Math.min(100, score))
Clamp(score) == Max(0, Min(100, score))

\* SeverityOf with the high tier ending below 30
SeverityOfStrictBound(score) ==
    IF score < 30 THEN "high" ELSE IF score <= 60 THEN "medium" ELSE "low"

SeverityOf(score) ==
    IF score <= 30 THEN "high" ELSE IF score <= 60 THEN "medium" ELSE "low"

BaseScore == 50

\* as computeRiskScore, but the count of creation events is added to the
\* estimate the creator object already carries
computeRiskScoreAccumulatesEstimate(m, ca, creatorTxs, hs, tm) ==
    LET emissionStatus == IF ca.canMintUnlimited = Some(TRUE) THEN "unlimited" ELSE "fixed"
        creatorSold == HasCreatorHold(hs) /\ Val(Val(hs).creatorHoldPercent) < Pct(1)
        createdCount == Len(SelectSeq(creatorTxs, txLooksLikeTokenCreation))
                        + ca.estimatedTokensCreated
        ca2 == [ca EXCEPT !.estimatedTokensCreated = Max(createdCount, 1)]
        rules == RuleResults(ca2, createdCount, hs, tm)
        raw == BaseScore + SumSeq([i \in 1..Len(rules) |-> rules[i].score])
        score == Clamp(raw)
    IN [score |-> score,
        severity |-> SeverityOf(score),
        factors |-> Flatten([i \in 1..Len(rules) |-> rules[i].factors]),
        creator |-> ca2,
        mint |-> m,
        holderStats |-> hs,
        emissionStatus |-> emissionStatus,
        creatorSold |-> creatorSold,
        tokenMarket |-> tm]

computeRiskScore(m, ca, creatorTxs, hs, tm) ==
    LET emissionStatus == IF ca.canMintUnlimited = Some(TRUE) THEN "unlimited" ELSE "fixed"
        creatorSold == HasCreatorHold(hs) /\ Val(Val(hs).creatorHoldPercent) < Pct(1)
        createdCount == Len(SelectSeq(creatorTxs, txLooksLikeTokenCreation))
        ca2 == [ca EXCEPT !.estimatedTokensCreated = Max(createdCount, 1)]
        rules == RuleResults(ca2, createdCount, hs, tm)
        raw == BaseScore + SumSeq([i \in 1..Len(rules) |-> rules[i].score])
        score == Clamp(raw)
    IN [score |-> score,
        severity |-> SeverityOf(score),
        factors |-> Flatten([i \in 1..Len(rules) |-> rules[i].factors]),
        creator |-> ca2,
        mint |-> m,
        holderStats |-> hs,
        emissionStatus |-> emissionStatus,
        creatorSold |-> creatorSold,
        tokenMarket |-> tm]

\* creatorAnalysis.estimatedTokensCreated = Math.max(createdCount, 1): the
\* function writes to the object it was passed
ArgsAfterCall(a) ==
    LET createdCount == Len(SelectSeq(a.creatorTxs, txLooksLikeTokenCreation))
    IN [a EXCEPT !.creatorAnalysis.estimatedTokensCreated = Max(createdCount, 1)]

(***************************************************************************)
(* Evidence bundles the scorer is exercised on                             *)
(***************************************************************************)
\* largest number of creation events in a supplied transaction sample
MaxCreated == 11

\* largest holder count supplied
MaxHolders == 500

\* largest liquidity supplied, in USD
MaxLiquidity == 80000

Rep(x, n) == [i \in 1..n |-> x]

Tx(type) == [type |-> type, timestamp |-> Some(1000)]

\* n creation events of mixed type tags, then two transactions that are none
SampleWith(n) ==
    [i \in 1..n |-> Tx(Some(IF i % 3 = 0 THEN "TOKEN_MINT"
                            ELSE IF i % 3 = 1 THEN "create" ELSE "NFT_MINT_V2"))]
    \o <<Tx(Some("TRANSFER")), Tx(None)>>

TxSamples == {<<>>} \cup {SampleWith(n) : n \in {0, 1, 4, 5, 9, 10, MaxCreated}}

MintStates == {None, Some(TRUE), Some(FALSE)}

AgeValues ==
    {None} \cup {Some(a) : a \in {Days(1) - 1, Days(1), Days(7) - 1, Days(7),
                                  Days(90) - 1, Days(90)}}

TxCounts == {500, 501}

Creator(cm, age, n) ==
    [creatorAddress |-> "Creator",
     creatorFirstTxTimestamp |-> Some(1000),
     accountAgeDays |-> age,
     totalTxCount |-> n,
     estimatedTokensCreated |-> 0,
     tokenName |-> None,
     tokenSymbol |-> None,
     canMintUnlimited |-> cm]

Connected(pcts) ==
    IF Len(pcts) = 0 THEN None
    ELSE Some([i \in 1..Len(pcts) |->
                 [owner |-> "H", percent |-> pcts[i], firstReceivedAt |-> Some(1000)]])

Holders(hold, n, top10, pcts) ==
    Some([totalSupplyRaw |-> 1000000,
          totalHolders |-> n,
          top10Percent |-> top10,
          topHolders |-> <<>>,
          creatorHoldPercent |-> hold,
          creatorConnectedHolders |-> Connected(pcts)])

HolderSamples ==
    {None}
    \cup {Holders(h, 16, Pct(40), <<>>) :
            h \in {None, Some(0), Some(Pct(1) - 1), Some(Pct(1)), Some(Pct(10) - 1),
                   Some(Pct(10)), Some(Pct(15))}}
    \cup {Holders(None, n, Pct(40), <<>>) :
            n \in {0, 1, 2, 3, 5, 6, 15, 16, 99, 100, MaxHolders}}
    \cup {Holders(None, n, t, <<>>) :
            n \in {16, 100},
            t \in {0, Pct(25), Pct(30), Pct(30) + 1, Pct(50) - 1, Pct(50),
                   Pct(80) - 1, Pct(80), Pct(100)}}
    \cup {Holders(None, 16, Pct(40), c) :
            c \in {<<Pct(20) - 1>>, <<Pct(20)>>, <<Pct(10), Pct(10) - 1>>,
                   <<Pct(10), Pct(10)>>, <<1, 1, 1>>}}
    \cup {Holders(Some(0), 2, Pct(100), <<>>),
          Holders(Some(0), 1, Pct(100), <<Pct(40), Pct(30), Pct(30)>>),
          Holders(Some(Pct(15)), MaxHolders, Pct(25), <<>>)}

Market(liq, f1, f7) ==
    Some([liquidityUsd |-> liq,
          pairs |-> None,
          txCount24h |-> None,
          buys24h |-> None,
          sells24h |-> None,
          uniqueTraders24h |-> None,
          freshHolders1dPercent |-> f1,
          freshHolders7dPercent |-> f7,
          migrationStatus |-> None])

MarketSamples ==
    {None}
    \cup {Market(l, None, None) :
            l \in {None} \cup {Some(u) : u \in {-1, 0, 500, 1999, 2000, 9999, 10000,
                                               49999, 50000, MaxLiquidity}}}
    \cup {Market(None, Some(50), None), Market(None, Some(51), None),
          Market(None, None, Some(70)), Market(None, None, Some(71)),
          Market(Some(500), Some(51), Some(71)),
          Market(Some(MaxLiquidity), Some(0), Some(0))}

Bundle(cm, age, n, txs, hs, tm) ==
    [mint |-> "MintA",
     creatorAnalysis |-> Creator(cm, age, n),
     creatorTxs |-> txs,
     holderStats |-> hs,
     tokenMarket |-> tm]

HolderCore ==
    {None,
     Holders(None, 16, Pct(40), <<>>),
     Holders(Some(0), 2, Pct(100), <<>>),
     Holders(Some(Pct(5)), 6, Pct(50), <<Pct(5)>>),
     Holders(Some(0), 1, Pct(100), <<Pct(40), Pct(30), Pct(30)>>),
     Holders(Some(Pct(15)), MaxHolders, Pct(25), <<>>)}

MarketCore ==
    {None,
     Market(Some(500), None, None),
     Market(Some(2000), None, None),
     Market(Some(500), Some(51), Some(71)),
     Market(Some(MaxLiquidity), Some(0), Some(0))}

\* every creator profile and sample against the main holder and market cases,
\* and every holder and market case against a few creator profiles
Bundles ==
    {Bundle(cm, age, n, txs, hs, tm) :
        cm \in MintStates, age \in AgeValues, n \in TxCounts, txs \in TxSamples,
        hs \in HolderCore, tm \in MarketCore}
    \cup
    {Bundle(cm, age, 500, txs, hs, tm) :
        cm \in MintStates, age \in {None, Some(Days(200))},
        txs \in {SampleWith(1), SampleWith(4)},
        hs \in HolderSamples, tm \in MarketSamples}

(***************************************************************************)
(* The scorer on its own: one call on a supplied bundle                    *)
(***************************************************************************)
HandlerOff ==
    /\ env = [HELIUS_API_KEY |-> None, BIRDEYE_API_KEY |-> None]
    /\ chain = None
    /\ pc = "off"
    /\ mint = ""
    /\ tokenMeta = [tokenName |-> None, tokenSymbol |-> None]
    /\ canMintUnlimited = None
    /\ creationTx = None
    /\ creatorTxsDesc = <<>>
    /\ creatorAnalysis = None
    /\ holderStats = None
    /\ tokenMarket = None
    /\ creatorPreviousTokens = <<>>
    /\ failed = {}
    /\ response = None

ScoreInit ==
    /\ HandlerOff
    /\ args \in Bundles
    /\ result = None
    /\ again = None

ScoreCall ==
    /\ pc = "off"
    /\ result = None
    /\ result' = Some(computeRiskScore(args.mint, args.creatorAnalysis, args.creatorTxs,
                                       args.holderStats, args.tokenMarket))
    /\ args' = ArgsAfterCall(args)
    /\ UNCHANGED <<handlerVars, again>>

\* a second call with the very objects the first call was given
ScoreAgain ==
    /\ pc = "off"
    /\ result # None
    /\ again = None
    /\ again' = Some(computeRiskScore(args.mint, args.creatorAnalysis, args.creatorTxs,
                                      args.holderStats, args.tokenMarket))
    /\ args' = ArgsAfterCall(args)
    /\ UNCHANGED <<handlerVars, result>>

ScoreNext == ScoreCall \/ ScoreAgain

ScoreSpec == ScoreInit /\ [][ScoreNext]_vars

(***************************************************************************)
(* Helius client: src/src/lib/helius.ts, 1-258                             *)
(*                                                                         *)
(* A call either returns a value or throws an Error with a message.  What  *)
(* the network does is the call's last argument: a fetch that rejects      *)
(* (NetworkError) or an HTTP response with a status and a body that is     *)
(* JSON or is not.                                                         *)
(***************************************************************************)
Ok(v) == [ok |-> TRUE, value |-> v]

Throw(m) == [ok |-> FALSE, message |-> m]

NetworkError == [net |-> FALSE, status |-> 0, json |-> FALSE, text |-> "", value |-> None]

JsonReply(status, value) ==
    [net |-> TRUE, status |-> status, json |-> TRUE, text |-> "", value |-> value]

TextReply(status, text) ==
    [net |-> TRUE, status |-> status, json |-> FALSE, text |-> text, value |-> None]

\* res.ok
ResOk(res) == res.status \in 200..299

\* String(res.status) for the statuses the providers answer with
StatusString(n) ==
    CASE n = 200 -> "200" [] n = 401 -> "401" [] n = 404 -> "404"
      [] n = 429 -> "429" [] n = 500 -> "500" [] OTHER -> "0"

\* text.slice(0, 200)
Slice200(t) == IF Len(t) <= 200 THEN t ELSE SubSeq(t, 1, 200)

\* messages of the runtime: fetch rejecting, res.json() on a body that is not JSON
FETCH_FAILED_MSG == "fetch failed"

JSON_PARSE_MSG == "Unexpected token < in JSON at position 0"

PLACEHOLDER_KEY == "your_helius_api_key_here"

INVALID_KEY_MSG ==
    "Invalid Helius API key. Update HELIUS_API_KEY in .env with your key from https://dashboard.helius.dev (no quotes or spaces), then restart the server (npm run dev)."

PLACEHOLDER_MSG ==
    ".env contains the placeholder key. Replace your_helius_api_key_here with your key from https://dashboard.helius.dev"

getApiKey(e) ==
    LET raw == e.HELIUS_API_KEY
    IN IF ~IsDef(raw) \/ Val(raw) = ""
       THEN Throw("HELIUS_API_KEY is not set. Add it to .env")
       ELSE LET key == trim(Val(raw))
            IN IF key = ""
               THEN Throw("HELIUS_API_KEY is empty in .env")
               ELSE IF key = PLACEHOLDER_KEY \/ toLowerCase(key) = toLowerCase(PLACEHOLDER_KEY)
                    THEN Throw(PLACEHOLDER_MSG)
                    ELSE Ok(key)

getTransactionsByAddress(e, res) ==
    IF ~getApiKey(e).ok THEN getApiKey(e)
    ELSE IF ~res.net THEN Throw(FETCH_FAILED_MSG)
    ELSE IF res.status = 401 THEN Throw(INVALID_KEY_MSG)
    ELSE IF ~ResOk(res)
         THEN Throw("Helius API error " \o StatusString(res.status) \o ": " \o Slice200(res.text))
    ELSE IF ~res.json THEN Throw(JSON_PARSE_MSG)
    ELSE IF res.value.isArray THEN Ok(res.value.items) ELSE Ok(<<>>)

\* an entry list in insertion order stands for a Map
MapHas(m, k) == \E i \in 1..Len(m) : m[i].key = k

MapGet(m, k) == m[CHOOSE i \in 1..Len(m) : m[i].key = k].value

\* the transfers of one transaction the loop visits: native, then token
TransfersOf(tx) ==
    (IF IsDef(tx.nativeTransfers) THEN Val(tx.nativeTransfers) ELSE <<>>)
    \o (IF IsDef(tx.tokenTransfers) THEN Val(tx.tokenTransfers) ELSE <<>>)

\* the positions two nested loops visit: <<i, k>> is entry k of the inner
\* list of transaction i, lists being the inner lists of the transactions
Positions(lists) ==
    UNION {{<<i, k>> : k \in 1..Len(lists[i])} : i \in 1..Len(lists)}

\* position p is visited before position q
Earlier(p, q) == p[1] < q[1] \/ (p[1] = q[1] /\ p[2] < q[2])

\* the positions ps as a sequence, in the order the loops visit them
InVisitOrder(ps) ==
    [n \in 1..Cardinality(ps) |->
        CHOOSE p \in ps : Cardinality({q \in ps : Earlier(q, p)}) = n - 1]

\* the receivedBy Map after the loops: a recipient is set at the first
\* transfer to it that the loops visit, when receivedBy.has(to) is still
\* false, and keeps that entry and its place
getWalletsReceivedFromCreator(creatorTxs, creatorAddress) ==
    LET at(p) == TransfersOf(creatorTxs[p[1]])[p[2]]
        ts(p) == IF IsDef(creatorTxs[p[1]].timestamp)
                 THEN Val(creatorTxs[p[1]].timestamp) ELSE 0
        paid == {p \in Positions([i \in 1..Len(creatorTxs) |-> TransfersOf(creatorTxs[i])]) :
                    /\ at(p).fromUserAccount = Some(creatorAddress)
                    /\ IsDef(at(p).toUserAccount) /\ Val(at(p).toUserAccount) # ""}
        first == {p \in paid :
                    \A q \in paid :
                        at(q).toUserAccount = at(p).toUserAccount => ~Earlier(q, p)}
        order == InVisitOrder(first)
    IN [n \in 1..Len(order) |->
           [key |-> Val(at(order[n]).toUserAccount), value |-> ts(order[n])]]

getAsset(e, mintAddress, res) ==
    IF ~getApiKey(e).ok THEN getApiKey(e)
    ELSE IF ~res.net THEN Throw(FETCH_FAILED_MSG)
    ELSE IF ~res.json THEN Throw(JSON_PARSE_MSG)
    ELSE IF IsDef(res.value.error)
         THEN LET msg == Val(res.value.error)
              IN IF res.status = 401 \/ includes(toLowerCase(msg), "invalid api key")
                 THEN Throw(INVALID_KEY_MSG)
                 ELSE IF includes(msg, "not found") \/ res.status = 404
                      THEN Ok(None)
                      ELSE Throw("Helius getAsset error: " \o msg)
    ELSE IF ~IsDef(res.value.result) THEN Ok(None)
    ELSE Ok(Some(Val(res.value.result)))

\* the 64 digits of base64, in value order
Base64Digits == "ABCDEFGHIJKLMNOPQRSTUVWXYZabcdefghijklmnopqrstuvwxyz0123456789+/"

Base64Value ==
    [c \in {SubSeq(Base64Digits, i, i) : i \in 1..Len(Base64Digits)} |->
        (CHOOSE j \in 1..Len(Base64Digits) : SubSeq(Base64Digits, j, j) = c) - 1]

RECURSIVE Base64Decode(_)
\* Buffer.from(s, "base64") on padded base64 text: the bytes, four digits at a time
Base64Decode(s) ==
    IF Len(s) < 4 THEN <<>>
    ELSE LET d(i) == IF SubSeq(s, i, i) = "=" THEN 0 ELSE Base64Value[SubSeq(s, i, i)]
             n == d(1) * 262144 + d(2) * 4096 + d(3) * 64 + d(4)
             three == <<n \div 65536, (n \div 256) % 256, n % 256>>
             keep == IF SubSeq(s, 3, 3) = "=" THEN 1
                     ELSE IF SubSeq(s, 4, 4) = "=" THEN 2 ELSE 3
         IN SubSeq(three, 1, keep) \o Base64Decode(SubSeq(s, 5, Len(s)))

MINT_AUTHORITY_OPTION_OFFSET == 10

getMintAuthoritySet(e, res) ==
    IF ~getApiKey(e).ok THEN getApiKey(e)
    ELSE IF ~res.net THEN Throw(FETCH_FAILED_MSG)
    ELSE IF ~res.json THEN Throw(JSON_PARSE_MSG)
    ELSE IF IsDef(res.value.error) \/ ~IsDef(res.value.result) \/ Val(res.value.result) = ""
         THEN Ok(None)
    ELSE LET buf == Base64Decode(Val(res.value.result))
         IN IF Len(buf) < MINT_AUTHORITY_OPTION_OFFSET + 1
            THEN Ok(None)
            ELSE Ok(Some(buf[MINT_AUTHORITY_OPTION_OFFSET + 1] = 1))

\* String(a.owner ?? "")
OwnerString(a) == IF IsDef(a.owner) THEN Val(a.owner) ELSE ""

\* String(a.amount ?? 0): the decimal text of an integer amount, or text that
\* is no integer literal; digits tells which, n is the integer
AmountString(a) == IF IsDef(a.amount) THEN Val(a.amount) ELSE [digits |-> TRUE, n |-> 0]

getTokenAccountsByMint(e, res) ==
    IF ~getApiKey(e).ok THEN getApiKey(e)
    ELSE IF ~res.net THEN Throw(FETCH_FAILED_MSG)
    ELSE IF res.status = 401 THEN Throw(INVALID_KEY_MSG)
    ELSE IF ~ResOk(res)
         THEN Throw("Helius getTokenAccounts error " \o StatusString(res.status)
                    \o ": " \o Slice200(res.text))
    ELSE IF ~res.json THEN Throw(JSON_PARSE_MSG)
    ELSE IF IsDef(res.value.error)
         THEN Throw("Helius getTokenAccounts: " \o Val(res.value.error))
    ELSE LET data == IF IsDef(res.value.result) THEN Val(res.value.result) ELSE res.value
             accounts == IF IsDef(data.token_accounts) THEN Val(data.token_accounts) ELSE <<>>
             total == IF IsDef(data.total) THEN Val(data.total) ELSE Len(accounts)
         IN Ok([token_accounts |->
                    [i \in 1..Len(accounts) |->
                        [owner |-> OwnerString(accounts[i]),
                         amount |-> AmountString(accounts[i])]],
                total |-> total])

\* BigInt(text): throws a SyntaxError on text that is no integer literal
BigIntOf(amount) ==
    IF amount.digits THEN Ok(amount.n) ELSE Throw("Cannot convert to a BigInt")

\* BigInt division truncates toward zero
BigIntDiv(a, b) == IF a >= 0 THEN a \div b ELSE -((-a) \div b)

\* a well-formed address: /^[1-9A-HJ-NP-Za-km-z]{32,44}$/ on the trimmed value
Base58Digits == "123456789ABCDEFGHJKLMNPQRSTUVWXYZabcdefghijkmnopqrstuvwxyz"

Base58Set == {SubSeq(Base58Digits, i, i) : i \in 1..Len(Base58Digits)}

isValidSolanaAddress(value) ==
    IF value = "" THEN FALSE
    ELSE LET trimmed == trim(value)
         IN /\ Len(trimmed) >= 32
            /\ Len(trimmed) <= 44
            /\ \A i \in 1..Len(trimmed) : SubSeq(trimmed, i, i) \in Base58Set

(***************************************************************************)
(* Analyze route: src/unnamed/part_002, 22-146                             *)
(***************************************************************************)
CREATION_TYPES ==
    {"CREATE", "CREATE_MINT_METADATA", "TOKEN_MINT", "MINT_TO", "INITIALIZE",
     "INITIALIZE_MINT", "NFT_MINT", "COMPRESSED_NFT_MINT"}

isCreationTx(tx) ==
    LET t == toUpperCase(TypeOrEmpty(tx))
    IN IF \E prefix \in CREATION_TYPES : t = prefix \/ startsWith(t, prefix \o "_")
       THEN TRUE
       ELSE includes(t, "MINT") \/ includes(t, "CREATE") \/ includes(t, "INITIALIZE")

\* Set.add on a Set kept as a sequence in insertion order
SetAdd(set, x) == IF \E i \in 1..Len(set) : set[i] = x THEN set ELSE Append(set, x)

\* Map.set: a key already present keeps its place
MapSet(m, k, v) ==
    IF MapHas(m, k)
    THEN [i \in 1..Len(m) |-> IF m[i].key = k THEN [key |-> k, value |-> v] ELSE m[i]]
    ELSE Append(m, [key |-> k, value |-> v])

\* tx.tokenTransfers ?? []
TokenTransfersOf(tx) == IF IsDef(tx.tokenTransfers) THEN Val(tx.tokenTransfers) ELSE <<>>

\* the mints Set after the loops, in insertion order: a mint is added at the
\* first token transfer of a creation transaction that names it
getOtherMintsFromCreatorTxs(txs, currentMint, limit) ==
    LET m(p) == LET t == TokenTransfersOf(txs[p[1]])[p[2]]
                IN IF IsDef(t.mint) THEN trim(Val(t.mint)) ELSE ""
        added == {p \in Positions([i \in 1..Len(txs) |-> TokenTransfersOf(txs[i])]) :
                     /\ isCreationTx(txs[p[1]])
                     /\ m(p) # "" /\ m(p) # currentMint /\ isValidSolanaAddress(m(p))}
        first == {p \in added : \A q \in added : m(q) = m(p) => ~Earlier(q, p)}
        order == InVisitOrder(first)
        mints == [n \in 1..Len(order) |-> m(order[n])]
    IN SubSeq(mints, 1, Min(limit, Len(mints)))

inferMigrationStatus(dexIds) ==
    LET lower == [i \in 1..Len(dexIds) |-> toLowerCase(dexIds[i])]
        some(P(_)) == \E i \in 1..Len(lower) : P(lower[i])
        isPump(d) == includes(d, "pump")
        isRaydium(d) == d = "raydium" \/ includes(d, "raydium")
        isPumpAmm(d) == includes(d, "pump-amm") \/ includes(d, "pump_amm")
        isOtherAmm(d) ==
            \E x \in {"orca", "meteora", "jupiter", "lifinity", "phoenix"} : includes(d, x)
        hasPump == some(isPump)
        hasAmm == some(isRaydium) \/ some(isPumpAmm) \/ some(isOtherAmm)
    IN IF Len(dexIds) = 0 THEN "unknown"
       ELSE IF hasPump /\ ~hasAmm THEN "bonding_curve"
       ELSE IF hasAmm /\ hasPump THEN "migrated"
       ELSE IF hasAmm THEN "amm_only"
       ELSE "unknown"

\* the object fetchDexScreenerData returns when it has nothing: {}
NoDexData ==
    [liquidityUsd |-> None, txCount24h |-> None, buys24h |-> None, sells24h |-> None,
     pairs |-> None, migrationStatus |-> None]

\* one turn of the loop over the pairs
DexStep(acc, pair, m) ==
    LET dexId == IF IsDef(pair.dexId) THEN trim(Val(pair.dexId)) ELSE ""
        usd == IF IsDef(pair.usd) THEN Val(pair.usd) ELSE 0
        buys == IF IsDef(pair.h24) /\ IsDef(Val(pair.h24).buys) THEN Val(Val(pair.h24).buys) ELSE 0
        sells == IF IsDef(pair.h24) /\ IsDef(Val(pair.h24).sells) THEN Val(Val(pair.h24).sells) ELSE 0
        quoteSym == IF IsDef(pair.quoteSymbol) THEN Val(pair.quoteSymbol) ELSE "?"
        baseSym == IF IsDef(pair.baseSymbol) THEN Val(pair.baseSymbol) ELSE "?"
        otherSymbol == IF pair.baseAddress = Some(m) THEN quoteSym ELSE baseSym
        replace == ~MapHas(acc.byQuote, otherSymbol)
                   \/ usd > MapGet(acc.byQuote, otherSymbol).liquidityUsd
    IN [dexIdsSeen |-> IF dexId # "" THEN SetAdd(acc.dexIdsSeen, dexId) ELSE acc.dexIdsSeen,
        liquidityUsd |-> IF usd > 0 THEN acc.liquidityUsd + usd ELSE acc.liquidityUsd,
        buys24h |-> acc.buys24h + buys,
        sells24h |-> acc.sells24h + sells,
        byQuote |-> IF replace
                    THEN MapSet(acc.byQuote, otherSymbol,
                                [liquidityUsd |-> IF usd > 0 THEN usd ELSE 0,
                                 dexId |-> pair.dexId,
                                 pairAddress |-> pair.pairAddress])
                    ELSE acc.byQuote]

RECURSIVE DexLoop(_, _, _)
DexLoop(acc, data, m) ==
    IF data = <<>> THEN acc ELSE DexLoop(DexStep(acc, Head(data), m), Tail(data), m)

\* x > 0 ? x : undefined
PositiveOrNone(x) == IF x > 0 THEN Some(x) ELSE None

fetchDexScreenerData(m, res) ==
    IF ~res.net \/ ~ResOk(res) \/ ~res.json THEN NoDexData
    ELSE IF ~res.value.isArray \/ Len(res.value.items) = 0 THEN NoDexData
    ELSE LET acc == DexLoop([dexIdsSeen |-> <<>>, liquidityUsd |-> 0, buys24h |-> 0,
                             sells24h |-> 0, byQuote |-> <<>>],
                            res.value.items, m)
             kept == SelectSeq(acc.byQuote, LAMBDA en : en.value.liquidityUsd > 0)
             pairs == [i \in 1..Len(kept) |->
                         [quoteSymbol |-> kept[i].key,
                          liquidityUsd |-> kept[i].value.liquidityUsd,
                          dexId |-> kept[i].value.dexId,
                          pairAddress |-> kept[i].value.pairAddress]]
             txCount24h == acc.buys24h + acc.sells24h
         IN [liquidityUsd |-> PositiveOrNone(acc.liquidityUsd),
             txCount24h |-> PositiveOrNone(txCount24h),
             buys24h |-> PositiveOrNone(acc.buys24h),
             sells24h |-> PositiveOrNone(acc.sells24h),
             pairs |-> IF Len(pairs) > 0 THEN Some(pairs) ELSE None,
             migrationStatus |-> Some(inferMigrationStatus(acc.dexIdsSeen))]

(***************************************************************************)
(* Analyze route: the GET handler, src/unnamed/part_002, 151-376           *)
(***************************************************************************)
RECURSIVE ByOwner(_, _)
\* the byOwner Map after the loop over the token accounts, or the throw of BigInt
ByOwner(byOwner, accounts) ==
    IF accounts = <<>> THEN Ok(byOwner)
    ELSE LET a == Head(accounts)
         IN IF a.owner = "" THEN ByOwner(byOwner, Tail(accounts))
            ELSE IF ~BigIntOf(a.amount).ok THEN BigIntOf(a.amount)
            ELSE LET amt == BigIntOf(a.amount).value
                     old == IF MapHas(byOwner, a.owner) THEN MapGet(byOwner, a.owner) ELSE 0
                 IN ByOwner(MapSet(byOwner, a.owner, old + amt), Tail(accounts))

\* InsertDesc without the comparison: the entries end up in reverse insertion
\* order
InsertDescAtFront(s, e) == <<e>> \o s

\* where a stable descending sort puts e into an already sorted s: behind
\* every entry that is not smaller
InsertDesc(s, e) ==
    LET k == Cardinality({i \in 1..Len(s) : s[i].value >= e.value})
    IN SubSeq(s, 1, k) \o <<e>> \o SubSeq(s, k + 1, Len(s))

RECURSIVE SortDescFrom(_, _)
SortDescFrom(sorted, rest) ==
    IF rest = <<>> THEN sorted ELSE SortDescFrom(InsertDesc(sorted, Head(rest)), Tail(rest))

\* .sort((a, b) => (b[1] > a[1] ? 1 : b[1] < a[1] ? -1 : 0)), a stable sort
SortDesc(entries) == SortDescFrom(<<>>, entries)

\* PercentOf rounding up instead of down
PercentOfRoundsUp(x, total) == BigIntDiv(x * 10000 + total - 1, total)

\* PercentOf keeping whole percents only
PercentOfWholePercents(x, total) == BigIntDiv(x * 100, total) * 100

\* Number((x * 10000n) / total) / 100, in hundredths of a percent
PercentOf(x, total) == BigIntDiv(x * 10000, total)

\* the body of the try block that builds holderStats, after the fetch;
\* None when the block leaves holderStats undefined
HolderStatsOf(byOwner, creatorAddress, creatorTxs) ==
    LET sorted == SortDesc(SelectSeq(byOwner, LAMBDA en : en.value > 0))
        totalSupplyRaw == SumSeq([i \in 1..Len(sorted) |-> sorted[i].value])
    IN IF totalSupplyRaw > 0 /\ Len(sorted) > 0
       THEN LET top10 == SubSeq(sorted, 1, Min(10, Len(sorted)))
                top10Sum == SumSeq([i \in 1..Len(top10) |-> top10[i].value])
                creatorBalance == IF MapHas(byOwner, creatorAddress)
                                  THEN MapGet(byOwner, creatorAddress) ELSE 0
                topHoldersList ==
                    [i \in 1..Len(top10) |->
                        [owner |-> top10[i].key,
                         amountRaw |-> top10[i].value,
                         percent |-> PercentOf(top10[i].value, totalSupplyRaw)]]
                receivedFromCreator == getWalletsReceivedFromCreator(creatorTxs, creatorAddress)
                linked == SelectSeq(topHoldersList,
                                    LAMBDA h : MapHas(receivedFromCreator, h.owner))
                creatorConnectedHolders ==
                    [i \in 1..Len(linked) |->
                        [owner |-> linked[i].owner,
                         percent |-> linked[i].percent,
                         firstReceivedAt |-> Some(MapGet(receivedFromCreator, linked[i].owner))]]
            IN Some([totalSupplyRaw |-> totalSupplyRaw,
                     totalHolders |-> Len(sorted),
                     top10Percent |-> PercentOf(top10Sum, totalSupplyRaw),
                     topHolders |-> topHoldersList,
                     creatorHoldPercent |-> Some(PercentOf(creatorBalance, totalSupplyRaw)),
                     creatorConnectedHolders |->
                        IF Len(creatorConnectedHolders) > 0
                        THEN Some(creatorConnectedHolders) ELSE None])
       ELSE None

\* the catch block of GET: the status an error message is answered with
CatchStatus(message) ==
    LET isInvalidKey == \/ includes(message, "Invalid API key")
                        \/ includes(message, "invalid api key")
                        \/ includes(message, "invalid api key provided")
    IN IF isInvalidKey THEN 401
       ELSE IF \/ includes(message, "HELIUS_API_KEY")
               \/ includes(message, "not set")
               \/ includes(message, "rate")
            THEN 503
            ELSE 500

\* NextResponse.json({ error }, { status })
ErrorResponse(status, message) ==
    Some([status |-> status, error |-> Some(message), result |-> None])

\* NextResponse.json(result)
ResultResponse(r) == Some([status |-> 200, error |-> None, result |-> Some(r)])

(***************************************************************************)
(* The environment of a request: the configuration, the request and what   *)
(* the providers may answer to each call                                   *)
(***************************************************************************)
\* the time Date.now() reads, in seconds
Now == 20000000

\* most transactions in a creator sample the provider answers with
MaxSample == 10

\* most token accounts of distinct owners the provider answers with
MaxOwners == 11

MintA == "MintA111111111111111111111111111"

MintB == "MintB222222222222222222222222222"

MintC == "MintC333333333333333333333333333"

CreatorAddr == "CreatorWa11et1111111111111111111"

\* the key the provider accepts; any other key is answered with HTTP 401
LiveKey == "live-key"

Envs ==
    {[HELIUS_API_KEY |-> k, BIRDEYE_API_KEY |-> b] :
        k \in {None, Some("  "), Some(PLACEHOLDER_KEY), Some("Your_Helius_Api_Key_Here"),
               Some("revoked-key"), Some(LiveKey), Some(" " \o LiveKey \o " ")},
        b \in {None, Some("birdeye-key")}}

\* the mint query parameter as sent
MintParams == {"", "not-a-mint", MintA, " " \o MintA \o " "}

\* a JSON-RPC body: an error object, or a result
ErrorJson(msg) ==
    [error |-> Some(msg), result |-> None, token_accounts |-> None, total |-> None,
     isArray |-> FALSE, items |-> <<>>]

ResultJson(r) ==
    [error |-> None, result |-> r, token_accounts |-> None, total |-> None,
     isArray |-> FALSE, items |-> <<>>]

\* a JSON array body
ArrayJson(items) ==
    [error |-> None, result |-> None, token_accounts |-> None, total |-> None,
     isArray |-> TRUE, items |-> items]

Unauthorized == JsonReply(401, ErrorJson("invalid api key provided"))

\* the ways a call to the chain-data provider fails although the key is live
HeliusFailures ==
    {NetworkError, TextReply(429, "rate limit exceeded"),
     TextReply(500, "internal error"), TextReply(200, "<html>")}

\* what the chain-data provider answers to a call made with the key the
\* client sends: for the live key the answer it holds or a failure, HTTP 401
\* for any other key
HeliusReplies(e, answer) ==
    IF getApiKey(e).ok /\ getApiKey(e).value = LiveKey
    THEN HeliusFailures \cup {answer}
    ELSE {Unauthorized}

Transfer(from, to, m) == [fromUserAccount |-> from, toUserAccount |-> to, mint |-> m]

HTx(type, ts, feePayer, native, token) ==
    [type |-> type, timestamp |-> ts, feePayer |-> feePayer,
     nativeTransfers |-> native, tokenTransfers |-> token]

AssetAnswers ==
    {JsonReply(200, ErrorJson("Asset not found")),
     JsonReply(200, ErrorJson("internal failure")),
     JsonReply(200, ResultJson(None)),
     JsonReply(200, ResultJson(Some(
        [metadata |-> Some([name |-> Some("Token"), symbol |-> Some("TKN")]),
         token_info |-> None])))}
    \cup {JsonReply(200, ResultJson(Some(
            [metadata |-> None, token_info |-> Some([mint_authority |-> ma])]))) :
            ma \in {None, Some(""), Some("null"), Some(CreatorAddr)}}

\* getAccountInfo answers: base64 account data of 10, 12, 12 and 11 bytes whose
\* byte at offset 10 is absent, 0, 1 and 2
AccountAnswers ==
    {JsonReply(200, ErrorJson("account lookup failed")),
     JsonReply(200, ResultJson(None)),
     JsonReply(200, ResultJson(Some("")))}
    \cup {JsonReply(200, ResultJson(Some(d))) :
            d \in {"AAAAAAAAAAAAAA==", "AAAAAAAAAAAAAAAA", "AAAAAAAAAAAAAAEA",
                   "AAAAAAAAAAAAAAI="}}

\* answers to the lookup of the mint's earliest transaction
MintTxAnswers ==
    {JsonReply(200, ArrayJson(<<>>)),
     JsonReply(200, ResultJson(None)),
     JsonReply(200, ArrayJson(<<HTx(Some("CREATE"), Some(Now - Days(3)), None, None, None)>>))}
    \cup {JsonReply(200, ArrayJson(<<HTx(Some("CREATE"), ts, Some(CreatorAddr), None, None)>>)) :
            ts \in {None, Some(Now - Days(3))}}

\* answers to the lookup of the creator's earliest transaction
CreatorFirstAnswers ==
    {JsonReply(200, ArrayJson(<<>>))}
    \cup {JsonReply(200, ArrayJson(<<HTx(Some("TRANSFER"), Some(ts), Some(CreatorAddr), None, None)>>)) :
            ts \in {Now - Days(200), Now - Days(1) + 1}}

\* a creation event of the creator that moved tokens of mint m
Creation(ts, m) ==
    HTx(Some("CREATE"), Some(ts), Some(CreatorAddr), None,
        Some(<<Transfer(None, Some(CreatorAddr), Some(m))>>))

\* a payment of the creator to wallet to
Payment(ts, to) ==
    HTx(Some("TRANSFER"), Some(ts), Some(CreatorAddr),
        Some(<<Transfer(Some(CreatorAddr), Some(to), None)>>), None)

\* recent samples of the creator, newest first
CreatorSamples ==
    {<<>>,
     <<Creation(Now - Days(3), MintA)>>,
     <<Payment(Now - Days(1), "H1"), Payment(Now - Days(2), "H2"),
       Creation(Now - Days(3), MintA), Payment(Now - Days(4), "H1")>>,
     <<Creation(Now - Days(1), MintB), Creation(Now - Days(2), "not-a-mint"),
       Creation(Now - Days(3), MintA), Creation(Now - Days(4), MintB),
       Creation(Now - Days(5), MintC), Payment(Now - Days(6), CreatorAddr)>>,
     [i \in 1..MaxSample |-> HTx(Some("TOKEN_MINT"), Some(Now - Days(i)), Some(CreatorAddr), None, None)]}

\* the limit the handler puts on the sample it requests
CreatorSampleLimit == 100

\* a creator with more transactions than one request returns, newest first:
\* payments to one wallet
LongHistory == [i \in 1..(CreatorSampleLimit + MaxSample) |-> Payment(Now - i, "H1")]

\* what the provider returns of a history when asked for at most limit
ProviderPage(history, limit) == SubSeq(history, 1, Min(limit, Len(history)))

CreatorSampleAnswers ==
    {JsonReply(200, ArrayJson(ProviderPage(history, CreatorSampleLimit))) :
        history \in CreatorSamples \cup {LongHistory}}

Account(owner, n) == [owner |-> Some(owner), amount |-> Some([digits |-> TRUE, n |-> n])]

OwnerName(i) ==
    CASE i = 1 -> "H1" [] i = 2 -> "H2" [] i = 3 -> "H3" [] i = 4 -> "H4" [] i = 5 -> "H5"
      [] i = 6 -> "H6" [] i = 7 -> "H7" [] i = 8 -> "H8" [] i = 9 -> "H9" [] OTHER -> "Hn"

\* MaxOwners - 1 accounts of wallets H1.. with growing balances, and one of Hn
ManyAccounts ==
    [i \in 1..MaxOwners |-> Account(IF i < MaxOwners THEN OwnerName(i) ELSE "Hn", 10 * i)]

TokenAccountLists ==
    {<<>>,
     <<Account("H1", 0), [owner |-> None, amount |-> None]>>,
     <<Account("H1", 600), Account("H2", 300), Account(CreatorAddr, 100)>>,
     <<Account("H1", 500), Account("H2", 300), Account("H1", 200)>>,
     <<Account("H1", 1), Account(CreatorAddr, 2)>>,
     <<Account("H1", 5), [owner |-> Some("H2"), amount |-> Some([digits |-> FALSE, n |-> 0])]>>,
     ManyAccounts}

TokenAccountAnswers ==
    {JsonReply(200, ErrorJson("method not available"))}
    \cup {JsonReply(200, ResultJson(Some([token_accounts |-> Some(l), total |-> None]))) :
            l \in TokenAccountLists}

Pair(dexId, usd, buys, sells, quote) ==
    [dexId |-> Some(dexId), usd |-> usd,
     h24 |-> Some([buys |-> Some(buys), sells |-> Some(sells)]),
     baseAddress |-> Some(MintA), baseSymbol |-> Some("TKN"), quoteSymbol |-> Some(quote),
     pairAddress |-> Some("pair")]

\* the ways a call to the market-data provider fails
DexFailures == {NetworkError, TextReply(500, "internal error"), TextReply(200, "<html>")}

\* what the market-data provider may hold about the mint
DexAnswers ==
    {JsonReply(200, ArrayJson(<<>>)),
     JsonReply(200, ArrayJson(<<Pair("pumpfun", Some(500), 3, 4, "SOL")>>)),
     JsonReply(200, ArrayJson(<<Pair("raydium", Some(0), 0, 0, "SOL")>>)),
     JsonReply(200, ArrayJson(<<Pair("raydium", Some(40000), 10, 5, "SOL"),
                                Pair("orca", Some(30000), 1, 1, "USDC"),
                                Pair("pumpfun", Some(10000), 0, 2, "SOL")>>))}

\* what the second market-data provider may hold: uniqueWallet24h, or nothing
BirdeyeAnswers == {JsonReply(200, ResultJson(None)), JsonReply(200, ResultJson(Some(7)))}

\* what the providers hold about another mint of the creator
SiblingDexAnswer ==
    JsonReply(200, ArrayJson(<<Pair("raydium", Some(900), 1, 1, "SOL")>>))

SiblingAssetAnswer ==
    JsonReply(200, ResultJson(Some(
        [metadata |-> Some([name |-> Some("Other"), symbol |-> Some("OTH")]),
         token_info |-> None])))

\* what the providers hold while one request runs: their answers to the
\* handler's calls about the mint and its creator
World(asset, account, mintTxs, creatorFirst, creatorSample, tokenAccounts, dex, birdeye) ==
    [asset |-> asset, account |-> account, mintTxs |-> mintTxs,
     creatorFirst |-> creatorFirst, creatorSample |-> creatorSample,
     tokenAccounts |-> tokenAccounts, dex |-> dex, birdeye |-> birdeye]

\* a mint with a retained authority, a three day old creator with a short
\* history, three holders and one pool
PlainAsset ==
    JsonReply(200, ResultJson(Some(
        [metadata |-> None, token_info |-> Some([mint_authority |-> Some(CreatorAddr)])])))

PlainAccount == JsonReply(200, ResultJson(Some("AAAAAAAAAAAAAAEA")))

PlainMintTxs ==
    JsonReply(200, ArrayJson(<<HTx(Some("CREATE"), Some(Now - Days(3)), Some(CreatorAddr),
                                   None, None)>>))

PlainCreatorFirst ==
    JsonReply(200, ArrayJson(<<HTx(Some("TRANSFER"), Some(Now - Days(200)),
                                   Some(CreatorAddr), None, None)>>))

PlainCreatorSample ==
    JsonReply(200, ArrayJson(
        <<Payment(Now - Days(1), "H1"), Payment(Now - Days(2), "H2"),
          Creation(Now - Days(3), MintA), Payment(Now - Days(4), "H1")>>))

PlainTokenAccounts ==
    JsonReply(200, ResultJson(Some(
        [token_accounts |-> Some(<<Account("H1", 600), Account("H2", 300),
                                   Account(CreatorAddr, 100)>>),
         total |-> None])))

PlainDex == JsonReply(200, ArrayJson(<<Pair("pumpfun", Some(500), 3, 4, "SOL")>>))

PlainBirdeye == JsonReply(200, ResultJson(Some(7)))

PlainWorld ==
    World(PlainAsset, PlainAccount, PlainMintTxs, PlainCreatorFirst, PlainCreatorSample,
          PlainTokenAccounts, PlainDex, PlainBirdeye)

\* the worlds a request is run in: every combination of what is held about
\* the mint's authority, about the creator, and about holders and market,
\* each with the rest as in PlainWorld
Worlds ==
    {World(a, c, PlainMintTxs, PlainCreatorFirst, PlainCreatorSample, PlainTokenAccounts,
           PlainDex, PlainBirdeye) :
        a \in AssetAnswers, c \in AccountAnswers}
    \cup
    {World(PlainAsset, PlainAccount, m, f, s, PlainTokenAccounts, PlainDex, PlainBirdeye) :
        m \in MintTxAnswers, f \in CreatorFirstAnswers, s \in CreatorSampleAnswers}
    \cup
    {World(PlainAsset, PlainAccount, PlainMintTxs, PlainCreatorFirst, PlainCreatorSample,
           t, d, b) :
        t \in TokenAccountAnswers, d \in DexAnswers, b \in BirdeyeAnswers}

\* the requests checked: every key and mint parameter in PlainWorld, and the
\* well-formed request with a live key in every world
Requests ==
    {[env |-> e, mint |-> trim(p), chain |-> PlainWorld] : e \in Envs, p \in MintParams}
    \cup
    {[env |-> [HELIUS_API_KEY |-> Some(LiveKey), BIRDEYE_API_KEY |-> b], mint |-> MintA,
      chain |-> w] :
        b \in {None, Some("birdeye-key")}, w \in Worlds}

(***************************************************************************)
(* The GET handler as a process: one action per stretch between awaits     *)
(***************************************************************************)
Init ==
    /\ \E q \in Requests :
          /\ env = q.env
          /\ mint = q.mint
          /\ chain = Some(q.chain)
    /\ pc = "start"
    /\ tokenMeta = [tokenName |-> None, tokenSymbol |-> None]
    /\ canMintUnlimited = None
    /\ creationTx = None
    /\ creatorTxsDesc = <<>>
    /\ creatorAnalysis = None
    /\ holderStats = None
    /\ tokenMarket = None
    /\ creatorPreviousTokens = <<>>
    /\ failed = {}
    /\ response = None
    /\ args = None
    /\ result = None
    /\ again = None

\* the handler returns: the response is sent
Return(r) == response' = r /\ pc' = "done"

\* the outer catch block
Catch(message) == Return(ErrorResponse(CatchStatus(message), message))

\* lines 152-173: the checks before the first call
Start ==
    /\ pc = "start"
    /\ IF mint = ""
       THEN Return(ErrorResponse(400, "Missing mint parameter (token mint address)"))
       ELSE IF ~isValidSolanaAddress(mint)
            THEN Return(ErrorResponse(400,
                    "Invalid Solana address (expected 32-44 base58 characters)"))
            ELSE IF ~IsDef(env.HELIUS_API_KEY) \/ trim(Val(env.HELIUS_API_KEY)) = ""
                 THEN Return(ErrorResponse(503,
                         "Service not configured: HELIUS_API_KEY is missing"))
                 ELSE pc' = "getAsset" /\ UNCHANGED response
    /\ UNCHANGED <<env, chain, mint, tokenMeta, canMintUnlimited, creationTx, creatorTxsDesc,
                   creatorAnalysis, holderStats, tokenMarket, creatorPreviousTokens,
                   failed, args, result, again>>

\* the reply is no usable answer: no reply, a status that is not 2xx, a body
\* that is not JSON, or a JSON-RPC error object
ReplyIsError(res) ==
    ~res.net \/ ~ResOk(res) \/ ~res.json \/ IsDef(res.value.error)

\* typeof ma === "string" && ma.length > 0 && ma !== "null"
AuthorityIsSet(ma) == IsDef(ma) /\ Val(ma) # "" /\ Val(ma) # "null"

\* lines 175-195: token metadata and mint authority from getAsset, in a try
GetAsset ==
    /\ pc = "getAsset"
    /\ \E res \in HeliusReplies(env, Val(chain).asset) :
          LET r == getAsset(env, mint, res)
              asset == IF r.ok THEN r.value ELSE None
              cmu == IF IsDef(asset) /\ IsDef(Val(asset).token_info)
                     THEN Some(AuthorityIsSet(Val(Val(asset).token_info).mint_authority))
                     ELSE None
          IN /\ tokenMeta' = IF IsDef(asset) /\ IsDef(Val(asset).metadata)
                             THEN [tokenName |-> Val(Val(asset).metadata).name,
                                   tokenSymbol |-> Val(Val(asset).metadata).symbol]
                             ELSE tokenMeta
             /\ canMintUnlimited' = cmu
             /\ failed' = IF r.ok /\ ~ReplyIsError(res) THEN failed
                          ELSE failed \cup {"getAsset"}
             /\ pc' = IF cmu = None THEN "getMintAuthoritySet" ELSE "mintTxs"
    /\ UNCHANGED <<env, chain, mint, creationTx, creatorTxsDesc, creatorAnalysis, holderStats,
                   tokenMarket, creatorPreviousTokens, response, args, result, again>>

\* lines 195-198: the raw mint account, outside any inner try
GetMintAuthoritySet ==
    /\ pc = "getMintAuthoritySet"
    /\ \E res \in HeliusReplies(env, Val(chain).account) :
          LET r == getMintAuthoritySet(env, res)
          IN IF r.ok
             THEN /\ canMintUnlimited' = IF r.value # None THEN r.value ELSE canMintUnlimited
                  /\ failed' = IF r.value = None
                               THEN failed \cup {"getMintAuthoritySet"} ELSE failed
                  /\ pc' = "mintTxs"
                  /\ UNCHANGED response
             ELSE /\ Catch(r.message)
                  /\ failed' = failed \cup {"getMintAuthoritySet"}
                  /\ UNCHANGED canMintUnlimited
    /\ UNCHANGED <<env, chain, mint, tokenMeta, creationTx, creatorTxsDesc, creatorAnalysis,
                   holderStats, tokenMarket, creatorPreviousTokens, args, result, again>>

\* as HasFeePayer, but a list without a first transaction passes
HasFeePayerEmptyHistoryPasses(txs) ==
    Len(txs) = 0 \/ (IsDef(txs[1].feePayer) /\ Val(txs[1].feePayer) # "")

\* creationTx?.feePayer is truthy
HasFeePayer(txs) ==
    Len(txs) > 0 /\ IsDef(txs[1].feePayer) /\ Val(txs[1].feePayer) # ""

\* lines 200-217: the mint's earliest transaction; its fee payer is the creator
MintTxs ==
    /\ pc = "mintTxs"
    /\ \E res \in HeliusReplies(env, Val(chain).mintTxs) :
          LET r == getTransactionsByAddress(env, res)
          IN IF ~r.ok
             THEN /\ Catch(r.message)
                  /\ failed' = failed \cup {"mintTxs"}
                  /\ UNCHANGED creationTx
             ELSE IF ~HasFeePayer(r.value)
                  THEN /\ Return(ErrorResponse(404,
                            "Could not determine token creator (no transaction history for this address)"))
                       /\ UNCHANGED <<creationTx, failed>>
                  ELSE /\ creationTx' = IF Len(r.value) > 0 THEN Some(r.value[1]) ELSE None
                       /\ pc' = "creatorTxs"
                       /\ UNCHANGED <<response, failed>>
    /\ UNCHANGED <<env, chain, mint, tokenMeta, canMintUnlimited, creatorTxsDesc, creatorAnalysis,
                   holderStats, tokenMarket, creatorPreviousTokens, args, result, again>>

\* lines 219-247: the creator's earliest transaction and recent sample,
\* awaited together; Promise.all rejects with the rejection that comes first
CreatorTxs ==
    /\ pc = "creatorTxs"
    /\ \E resAsc \in HeliusReplies(env, Val(chain).creatorFirst),
          resDesc \in HeliusReplies(env, Val(chain).creatorSample) :
          LET rAsc == getTransactionsByAddress(env, resAsc)
              rDesc == getTransactionsByAddress(env, resDesc)
              thrown == {r \in {rAsc, rDesc} : ~r.ok}
              creatorFirstTxTimestamp == Val(creationTx).timestamp
              accountFirstTimestamp ==
                  IF Len(rAsc.value) > 0 /\ IsDef(rAsc.value[1].timestamp)
                  THEN rAsc.value[1].timestamp
                  ELSE creatorFirstTxTimestamp
              accountAgeDays ==
                  IF IsDef(accountFirstTimestamp)
                  THEN Some(Now - Val(accountFirstTimestamp))
                  ELSE None
          IN /\ failed' = failed \cup (IF rAsc.ok THEN {} ELSE {"creatorFirst"})
                                 \cup (IF rDesc.ok THEN {} ELSE {"creatorSample"})
             /\ IF thrown # {}
                THEN /\ \E r \in thrown : Catch(r.message)
                     /\ UNCHANGED <<creatorTxsDesc, creatorAnalysis>>
                ELSE /\ creatorTxsDesc' = rDesc.value
                     /\ creatorAnalysis' =
                          Some([creatorAddress |-> Val(Val(creationTx).feePayer),
                                creatorFirstTxTimestamp |->
                                    IF IsDef(creatorFirstTxTimestamp)
                                    THEN creatorFirstTxTimestamp
                                    ELSE accountFirstTimestamp,
                                accountAgeDays |-> accountAgeDays,
                                totalTxCount |-> Len(rDesc.value),
                                estimatedTokensCreated |-> 0,
                                tokenName |-> tokenMeta.tokenName,
                                tokenSymbol |-> tokenMeta.tokenSymbol,
                                canMintUnlimited |-> canMintUnlimited])
                     /\ pc' = "holders"
                     /\ UNCHANGED response
    /\ UNCHANGED <<env, chain, mint, tokenMeta, canMintUnlimited, creationTx, holderStats,
                   tokenMarket, creatorPreviousTokens, args, result, again>>

\* as HolderStatsAfter, but a throw leaves the distribution of a mint nobody holds
HolderStatsAfterThrowAsNoHolders(r, creatorAddress, creatorTxs) ==
    LET byOwner == IF r.ok THEN ByOwner(<<>>, r.value.token_accounts) ELSE r
    IN IF byOwner.ok
       THEN HolderStatsOf(byOwner.value, creatorAddress, creatorTxs)
       ELSE Some([totalSupplyRaw |-> 0, totalHolders |-> 0, top10Percent |-> 0,
                  topHolders |-> <<>>, creatorHoldPercent |-> Some(0),
                  creatorConnectedHolders |-> None])

\* lines 250-294: holderStats after the try block, r being what the lookup
\* returned or threw; a throw of the lookup or of BigInt leaves it undefined
HolderStatsAfter(r, creatorAddress, creatorTxs) ==
    LET byOwner == IF r.ok THEN ByOwner(<<>>, r.value.token_accounts) ELSE r
    IN IF byOwner.ok
       THEN HolderStatsOf(byOwner.value, creatorAddress, creatorTxs)
       ELSE None

\* lines 249-294: the holder distribution, in a try that ignores any throw
FetchHolders ==
    /\ pc = "holders"
    /\ \E res \in HeliusReplies(env, Val(chain).tokenAccounts) :
          LET r == getTokenAccountsByMint(env, res)
          IN /\ holderStats' = HolderStatsAfter(r, Val(creatorAnalysis).creatorAddress,
                                                creatorTxsDesc)
             /\ failed' = IF ~r.ok THEN failed \cup {"tokenAccounts"}
                          ELSE IF ~ByOwner(<<>>, r.value.token_accounts).ok
                               THEN failed \cup {"holderAmounts"}
                               ELSE failed
    /\ pc' = "market"
    /\ UNCHANGED <<env, chain, mint, tokenMeta, canMintUnlimited, creationTx, creatorTxsDesc,
                   creatorAnalysis, tokenMarket, creatorPreviousTokens, response, args,
                   result, again>>

\* process.env.BIRDEYE_API_KEY?.trim() is truthy
HasBirdeyeKey == IsDef(env.BIRDEYE_API_KEY) /\ trim(Val(env.BIRDEYE_API_KEY)) # ""

\* lines 296-327: liquidity and trades of the mint, unique traders when a
\* second key is configured; neither call can throw out of its try
MarketData ==
    /\ pc = "market"
    /\ \E res \in DexFailures \cup {Val(chain).dex},
          bres \in (IF HasBirdeyeKey THEN {NetworkError, Val(chain).birdeye} ELSE {NetworkError}) :
          LET dexData == fetchDexScreenerData(mint, res)
              uniqueTraders24h ==
                  IF HasBirdeyeKey /\ bres.net /\ ResOk(bres) /\ bres.json
                  THEN bres.value.result ELSE None
          IN /\ tokenMarket' =
                   IF \/ IsDef(dexData.liquidityUsd) \/ IsDef(dexData.txCount24h)
                      \/ IsDef(dexData.pairs) \/ IsDef(dexData.migrationStatus)
                      \/ IsDef(uniqueTraders24h)
                   THEN Some([liquidityUsd |-> dexData.liquidityUsd,
                              pairs |-> dexData.pairs,
                              txCount24h |-> dexData.txCount24h,
                              buys24h |-> dexData.buys24h,
                              sells24h |-> dexData.sells24h,
                              uniqueTraders24h |-> uniqueTraders24h,
                              freshHolders1dPercent |-> None,
                              freshHolders7dPercent |-> None,
                              migrationStatus |-> dexData.migrationStatus])
                   ELSE None
             /\ failed' = failed
                            \cup (IF ~res.net \/ ~ResOk(res) \/ ~res.json THEN {"dex"} ELSE {})
                            \cup (IF HasBirdeyeKey /\ (~bres.net \/ ~ResOk(bres) \/ ~bres.json)
                                  THEN {"birdeye"} ELSE {})
    /\ pc' = "siblings"
    /\ UNCHANGED <<env, chain, mint, tokenMeta, canMintUnlimited, creationTx, creatorTxsDesc,
                   creatorAnalysis, holderStats, creatorPreviousTokens, response, args,
                   result, again>>

\* getOtherMintsFromCreatorTxs(creatorTxsDesc, mint, 8)
otherMints == getOtherMintsFromCreatorTxs(creatorTxsDesc, mint, 8)

\* lines 329-354: one turn of the loop over the creator's other mints; both
\* lookups are best effort
Sibling ==
    /\ pc = "siblings"
    /\ Len(creatorPreviousTokens) < Len(otherMints)
    /\ LET otherMint == otherMints[Len(creatorPreviousTokens) + 1]
       IN \E dres \in {NetworkError, SiblingDexAnswer},
             ares \in HeliusReplies(env, SiblingAssetAnswer) :
             LET otherDex == fetchDexScreenerData(otherMint, dres)
                 r == getAsset(env, otherMint, ares)
                 meta == IF r.ok /\ IsDef(r.value) /\ IsDef(Val(r.value).metadata)
                         THEN Val(Val(r.value).metadata)
                         ELSE [name |-> None, symbol |-> None]
             IN /\ creatorPreviousTokens' =
                      Append(creatorPreviousTokens,
                             [mint |-> otherMint,
                              symbol |-> meta.symbol,
                              name |-> meta.name,
                              liquidityUsd |-> IF IsDef(otherDex.liquidityUsd)
                                               THEN Val(otherDex.liquidityUsd) ELSE 0,
                              pairs |-> IF IsDef(otherDex.pairs)
                                        THEN Val(otherDex.pairs) ELSE <<>>])
                /\ failed' = failed
                               \cup (IF ~dres.net \/ ~ResOk(dres) \/ ~dres.json
                                     THEN {"siblingDex"} ELSE {})
                               \cup (IF r.ok THEN {} ELSE {"siblingAsset"})
    /\ UNCHANGED <<env, chain, pc, mint, tokenMeta, canMintUnlimited, creationTx, creatorTxsDesc,
                   creatorAnalysis, holderStats, tokenMarket, response, args, result, again>>

\* lines 356-359: the score, and the response that carries it
Finish ==
    /\ pc = "siblings"
    /\ Len(creatorPreviousTokens) = Len(otherMints)
    /\ LET r == computeRiskScore(mint, Val(creatorAnalysis), creatorTxsDesc, holderStats,
                                 tokenMarket)
       IN /\ creatorAnalysis' = Some(r.creator)
          /\ Return(ResultResponse(
                r @@ [creatorPreviousTokens |->
                        IF Len(creatorPreviousTokens) > 0
                        THEN Some(creatorPreviousTokens) ELSE None]))
    /\ UNCHANGED <<env, chain, mint, tokenMeta, canMintUnlimited, creationTx, creatorTxsDesc,
                   holderStats, tokenMarket, creatorPreviousTokens, failed, args, result, again>>

Next ==
    \/ Start
    \/ GetAsset
    \/ GetMintAuthoritySet
    \/ MintTxs
    \/ CreatorTxs
    \/ FetchHolders
    \/ MarketData
    \/ Sibling
    \/ Finish

Spec == Init /\ [][Next]_vars

(***************************************************************************)
(* Properties of the scorer (checked under ScoreSpec)                      *)
(***************************************************************************)
\* the rule table of the specification: rule number, factor id, delta
RuleTable ==
    {[rule |-> 1, id |-> "unlimited_mint", delta |-> -20],
     [rule |-> 1, id |-> "fixed_supply", delta |-> 10],
     [rule |-> 2, id |-> "creator_sold", delta |-> -18],
     [rule |-> 2, id |-> "creator_holds", delta |-> 8],
     [rule |-> 3, id |-> "serial_creator", delta |-> -25],
     [rule |-> 3, id |-> "multiple_tokens", delta |-> -15],
     [rule |-> 3, id |-> "first_or_few", delta |-> 10],
     [rule |-> 4, id |-> "brand_new_account", delta |-> -20],
     [rule |-> 4, id |-> "new_account", delta |-> -10],
     [rule |-> 4, id |-> "established_account", delta |-> 10],
     [rule |-> 5, id |-> "very_high_activity", delta |-> -5],
     [rule |-> 6, id |-> "very_few_holders", delta |-> -18],
     [rule |-> 6, id |-> "few_holders", delta |-> -10],
     [rule |-> 6, id |-> "low_holder_count", delta |-> -4],
     [rule |-> 7, id |-> "extreme_concentration", delta |-> -15],
     [rule |-> 7, id |-> "high_concentration", delta |-> -8],
     [rule |-> 7, id |-> "distributed_holders", delta |-> 5],
     [rule |-> 8, id |-> "creator_connected_holders", delta |-> -14],
     [rule |-> 8, id |-> "creator_connected_holders", delta |-> -6],
     [rule |-> 9, id |-> "low_liquidity", delta |-> -12],
     [rule |-> 9, id |-> "moderate_liquidity", delta |-> -5],
     [rule |-> 9, id |-> "good_liquidity", delta |-> 5],
     [rule |-> 10, id |-> "very_fresh_holders", delta |-> -5]}

\* the rule a factor id belongs to (0 for an id the table does not list)
RuleOfId(id) ==
    IF \E row \in RuleTable : row.id = id
    THEN (CHOOSE row \in RuleTable : row.id = id).rule
    ELSE 0

IdsOfRules(rs) == {row.id : row \in {r \in RuleTable : r.rule \in rs}}

FactorIds(r) == {r.factors[i].id : i \in 1..Len(r.factors)}

ImpactSum(r) == SumSeq([i \in 1..Len(r.factors) |-> r.factors[i].impact])

\* C1: for every evidence bundle the returned score is an integer in [0,100]
\* and severity is "high" iff score <= 30, "medium" iff 31 <= score <= 60,
\* "low" iff score >= 61.
C1_ScoreRangeAndSeverity ==
    IsDef(result) =>
        LET r == Val(result)
        IN /\ r.score \in 0..100
           /\ r.severity \in {"high", "medium", "low"}
           /\ (r.severity = "high") <=> (r.score <= 30)
           /\ (r.severity = "medium") <=> (31 <= r.score /\ r.score <= 60)
           /\ (r.severity = "low") <=> (r.score >= 61)

\* a call that returned exactly 30, the upper edge of the high tier
C1_Witness == IsDef(result) /\ Val(result).score = 30 /\ Val(result).severity = "high"

\* the other tier edges and the lower clamp are returned too
C1_Edge31 == IsDef(result) /\ Val(result).score = 31
C1_Edge60 == IsDef(result) /\ Val(result).score = 60
C1_Edge61 == IsDef(result) /\ Val(result).score = 61
C1_ClampedAtZero ==
    IsDef(result) /\ Val(result).score = 0 /\ BaseScore + ImpactSum(Val(result)) < 0

\* C8: the score equals clamp(50 + sum of the impacts of the emitted factors),
\* each of the ten rules emits at most one factor, and each factor's impact
\* is a delta the rule table lists for its id.
C8_ScoreIsClampedSum ==
    IsDef(result) =>
        LET r == Val(result)
        IN /\ r.score = Max(0, Min(100, 50 + ImpactSum(r)))
           /\ \A k \in 1..10 :
                Cardinality({i \in 1..Len(r.factors) : RuleOfId(r.factors[i].id) = k}) <= 1
           /\ \A i \in 1..Len(r.factors) :
                /\ RuleOfId(r.factors[i].id) \in 1..10
                /\ \E row \in RuleTable :
                      row.id = r.factors[i].id /\ row.delta = r.factors[i].impact
                /\ r.factors[i].id = "creator_connected_holders" =>
                      r.factors[i].impact =
                          (IF r.factors[i].severity = "critical" THEN -14 ELSE -6)

\* a call in which several rules fired, creator_sold among them, and the sum
\* stayed inside the clamp
C8_Witness ==
    /\ IsDef(result)
    /\ Len(Val(result).factors) >= 5
    /\ "creator_sold" \in FactorIds(Val(result))
    /\ Val(result).score = 50 + ImpactSum(Val(result))

\* C9: the factors are in rule-evaluation order: a factor of rule i precedes
\* a factor of rule j whenever i < j.
C9_FactorsInRuleOrder ==
    IsDef(result) =>
        LET f == Val(result).factors
        IN \A i, j \in 1..Len(f) :
              i < j => RuleOfId(f[i].id) < RuleOfId(f[j].id)

\* a call whose factors are sorted by impact in neither direction
C9_Witness ==
    /\ IsDef(result)
    /\ LET f == Val(result).factors
       IN /\ \E i \in 1..(Len(f) - 1) : f[i].impact < f[i + 1].impact
          /\ \E i \in 1..(Len(f) - 1) : f[i].impact > f[i + 1].impact
          /\ "creator_sold" \in FactorIds(Val(result))
          /\ "brand_new_account" \in FactorIds(Val(result))

\* C10: a rule whose evidence is absent emits no factor and applies no delta:
\* mint authority unknown, holderStats absent, accountAgeDays null, tokenMarket
\* or its liquidity / fresh-holder fields absent.
C10_AbsentEvidenceSkipsRule ==
    IsDef(result) =>
        LET r == Val(result)
            ca == args.creatorAnalysis
            tm == args.tokenMarket
        IN /\ ca.canMintUnlimited = None => FactorIds(r) \cap IdsOfRules({1}) = {}
           /\ args.holderStats = None => FactorIds(r) \cap IdsOfRules({2, 6, 7, 8}) = {}
           /\ ca.accountAgeDays = None => FactorIds(r) \cap IdsOfRules({4}) = {}
           /\ (tm = None \/ Val(tm).liquidityUsd = None) =>
                 FactorIds(r) \cap IdsOfRules({9}) = {}
           /\ (tm = None \/ (Val(tm).freshHolders1dPercent = None
                             /\ Val(tm).freshHolders7dPercent = None)) =>
                 FactorIds(r) \cap IdsOfRules({10}) = {}
           /\ r.score = Max(0, Min(100, 50 + SumSeq([i \in 1..Len(r.factors) |->
                            IF RuleOfId(r.factors[i].id) \in 1..10
                            THEN r.factors[i].impact ELSE 0])))

\* a call with every optional piece of evidence absent: the only factor left
\* is the one of the tokens-created rule
C10_Witness ==
    /\ IsDef(result)
    /\ args.creatorAnalysis.canMintUnlimited = None
    /\ args.creatorAnalysis.accountAgeDays = None
    /\ args.holderStats = None
    /\ args.tokenMarket = None
    /\ FactorIds(Val(result)) \subseteq IdsOfRules({3, 5})

(***************************************************************************)
(* Properties of the request handler (checked under Spec)                  *)
(***************************************************************************)
\* the key the handler sends is one the provider accepts
KeyAccepted == getApiKey(env).ok /\ getApiKey(env).value = LiveKey

\* the request was answered with a RiskResult
AnsweredWithResult ==
    pc = "done" /\ IsDef(response) /\ Val(response).status = 200
    /\ IsDef(Val(response).result)

\* the status the request was answered with
AnsweredStatus == Val(response).status

\* C2: for a validated mint and a configured key, only the lookup of the
\* mint's earliest transaction (creator resolution) can make the request
\* fail; a failure of any other provider call is absorbed and the request
\* ends with a RiskResult.
C2_OnlyCreatorResolutionFailsRequest ==
    (pc = "done" /\ isValidSolanaAddress(mint) /\ KeyAccepted) =>
        \/ AnsweredWithResult
        \/ "mintTxs" \in failed
        \/ AnsweredStatus = 404

\* C3: once the creator is resolved, a failure of the creator's earliest
\* transaction lookup or of the recent sample lookup does not fail the
\* request: the age is then absent, the transaction count 0, and a RiskResult
\* is returned.
C3_CreatorLookupFailureAbsorbed ==
    (pc = "done" /\ IsDef(creationTx)) =>
        /\ AnsweredWithResult
        /\ "creatorFirst" \in failed =>
              Val(Val(response).result).creator.accountAgeDays = None
        /\ "creatorSample" \in failed =>
              Val(Val(response).result).creator.totalTxCount = 0

\* C4: mint-authority determination never fails the request: with a key the
\* provider accepts, whatever the raw mint-account fetch does, the handler
\* goes on to creator resolution, and a fetch that failed leaves
\* canMintUnlimited unknown.
C4_AuthorityNeverFailsRequest ==
    [][(pc = "getMintAuthoritySet" /\ KeyAccepted) =>
          /\ pc' = "mintTxs"
          /\ response' = None
          /\ "getMintAuthoritySet" \in failed' => canMintUnlimited' = None]_vars

\* the provider holds no transaction of the mint
NoHistory == Val(chain).mintTxs = JsonReply(200, ArrayJson(<<>>))

\* C5: when the lookup of the mint's earliest transaction returns an empty
\* list the request ends at once with HTTP 404 and an error message; no
\* RiskResult is returned and the scorer is not invoked.
C5_NoHistoryIsNotFound ==
    [][(pc = "mintTxs" /\ NoHistory /\ "mintTxs" \notin failed') =>
          /\ pc' = "done"
          /\ IsDef(response')
          /\ Val(response').status = 404
          /\ IsDef(Val(response').error)
          /\ Val(response').result = None
          /\ creationTx' = None /\ creatorAnalysis' = None]_vars

\* a request answered 404 because the mint has no history
C5_Witness ==
    /\ pc = "done" /\ IsDef(chain) /\ NoHistory /\ "mintTxs" \notin failed
    /\ IsDef(response) /\ AnsweredStatus = 404
    /\ creatorAnalysis = None

HolderDependentIds ==
    {"creator_sold", "creator_holds", "very_few_holders", "few_holders",
     "low_holder_count", "extreme_concentration", "high_concentration",
     "distributed_holders", "creator_connected_holders"}

\* C6: when the token-accounts lookup throws and every other lookup
\* succeeds, a RiskResult is returned whose holderStats is absent, whose
\* factors hold no holder-dependent id, and whose score is
\* clamp(50 + sum of the impacts of its factors).
C6_HolderLookupThrowAbsorbed ==
    (pc = "done" /\ failed = {"tokenAccounts"}) =>
        /\ AnsweredWithResult
        /\ LET r == Val(Val(response).result)
           IN /\ r.holderStats = None
              /\ FactorIds(r) \cap HolderDependentIds = {}
              /\ r.score = Max(0, Min(100, 50 + ImpactSum(r)))

\* such a request, answered with factors of the rules that need no holders
C6_Witness ==
    /\ pc = "done" /\ failed = {"tokenAccounts"}
    /\ AnsweredWithResult
    /\ IsDef(tokenMarket)
    /\ Len(Val(Val(response).result).factors) >= 3
    /\ "low_liquidity" \in FactorIds(Val(Val(response).result))

\* C7: a missing, placeholder or rejected key ends the request with a
\* configuration error, HTTP 401 or 503, never with the generic HTTP 500.
C7_KeyProblemIsConfigurationError ==
    (pc = "done" /\ isValidSolanaAddress(mint) /\ ~KeyAccepted) =>
        IsDef(response) /\ AnsweredStatus \in {401, 503}

(***************************************************************************)
(* Further properties of the scorer (checked under ScoreSpec)              *)
(***************************************************************************)
\* C11: a second call on the same argument objects, after the first call has
\* returned and written to the creator object, returns the same score,
\* severity, emissionStatus, creatorSold and the same factors in the same
\* order.
C11_SecondCallSameResult ==
    IsDef(again) =>
        /\ Val(again).score = Val(result).score
        /\ Val(again).severity = Val(result).severity
        /\ Val(again).emissionStatus = Val(result).emissionStatus
        /\ Val(again).creatorSold = Val(result).creatorSold
        /\ Val(again).factors = Val(result).factors

\* a second call on a creator object the first call wrote 5 into, having been
\* supplied with 0, that returned several factors
C11_Witness ==
    /\ IsDef(again)
    /\ args.creatorAnalysis.estimatedTokensCreated = 5
    /\ "multiple_tokens" \in FactorIds(Val(again))
    /\ Len(Val(again).factors) >= 5

\* the factors of r that belong to none of the rules rs, in order
FactorsOutside(r, rs) ==
    SelectSeq(r.factors, LAMBDA f : RuleOfId(f.id) \notin rs)

\* the score of bundle a
ScoreOf(a) ==
    computeRiskScore(a.mint, a.creatorAnalysis, a.creatorTxs, a.holderStats, a.tokenMarket)

\* the bundles that differ from a in the one evidence field named
VariedIn(a, field) ==
    CASE field = "mintAuthority" ->
           {[a EXCEPT !.creatorAnalysis.canMintUnlimited = v] : v \in MintStates}
      [] field = "walletAge" ->
           {[a EXCEPT !.creatorAnalysis.accountAgeDays = v] :
               v \in {None, Some(Days(1) - 1), Some(Days(7) - 1), Some(Days(90))}}
      [] field = "txCount" ->
           {[a EXCEPT !.creatorAnalysis.totalTxCount = v] : v \in TxCounts}
      [] field = "txSample" ->
           {[a EXCEPT !.creatorTxs = v] : v \in {<<>>, SampleWith(4), SampleWith(5), SampleWith(10)}}
      [] field = "creatorHold" ->
           IF IsDef(a.holderStats)
           THEN {[a EXCEPT !.holderStats = Some([Val(a.holderStats) EXCEPT !.creatorHoldPercent = v])] :
                   v \in {None, Some(0), Some(Pct(5)), Some(Pct(15))}}
           ELSE {}
      [] field = "holderCount" ->
           IF IsDef(a.holderStats)
           THEN {[a EXCEPT !.holderStats = Some([Val(a.holderStats) EXCEPT !.totalHolders = v])] :
                   v \in {2, 5, 15, 99, 100}}
           ELSE {}
      [] field = "top10" ->
           IF IsDef(a.holderStats)
           THEN {[a EXCEPT !.holderStats = Some([Val(a.holderStats) EXCEPT !.top10Percent = v])] :
                   v \in {Pct(25), Pct(40), Pct(50), Pct(80)}}
           ELSE {}
      [] field = "connected" ->
           IF IsDef(a.holderStats)
           THEN {[a EXCEPT !.holderStats =
                        Some([Val(a.holderStats) EXCEPT !.creatorConnectedHolders = Connected(v)])] :
                   v \in {<<>>, <<Pct(5)>>, <<Pct(20)>>}}
           ELSE {}
      [] field = "liquidity" ->
           IF IsDef(a.tokenMarket)
           THEN {[a EXCEPT !.tokenMarket = Some([Val(a.tokenMarket) EXCEPT !.liquidityUsd = v])] :
                   v \in {None, Some(500), Some(2000), Some(10000), Some(50000)}}
           ELSE {}
      [] field = "freshHolders" ->
           IF IsDef(a.tokenMarket)
           THEN {[a EXCEPT !.tokenMarket = Some([Val(a.tokenMarket) EXCEPT !.freshHolders1dPercent = v])] :
                   v \in {None, Some(50), Some(51)}}
           ELSE {}

\* the rule the rule table ties to each evidence field
RuleOfField ==
    [mintAuthority |-> 1, creatorHold |-> 2, txSample |-> 3, walletAge |-> 4, txCount |-> 5,
     holderCount |-> 6, top10 |-> 7, connected |-> 8, liquidity |-> 9, freshHolders |-> 10]

\* the rules that read each evidence field: the concentration rule reads the
\* holder count as well as the top-10 share
RulesReading(field) ==
    IF field = "holderCount" THEN {6, 7} ELSE {RuleOfField[field]}

\* C12 as stated: two bundles that differ in one evidence field get the same
\* factors, with the same impacts, from every rule but the one tied to that
\* field.
C12_OnlyTiedRuleDiffers ==
    (IsDef(result) /\ again = None) =>
        \A field \in DOMAIN RuleOfField :
            \A b \in VariedIn(args, field) :
                FactorsOutside(ScoreOf(b), {RuleOfField[field]})
                    = FactorsOutside(Val(result), {RuleOfField[field]})

\* C12, amended: two bundles that differ in one evidence field get the same
\* factors, with the same impacts, from every rule that does not read that
\* field; the holder count is read by the holder-count rule and by the
\* concentration rule (distributed_holders needs 100 holders).
C12_OnlyReadingRulesDiffer ==
    (IsDef(result) /\ again = None) =>
        \A field \in DOMAIN RuleOfField :
            \A b \in VariedIn(args, field) :
                FactorsOutside(ScoreOf(b), RulesReading(field))
                    = FactorsOutside(Val(result), RulesReading(field))

\* a bundle with every rule firing whose wallet age, changed alone, changes
\* the factor of the age rule
C12_Witness ==
    /\ IsDef(result) /\ again = None
    /\ Len(Val(result).factors) >= 8
    /\ \E b \in VariedIn(args, "walletAge") :
          /\ ScoreOf(b).factors # Val(result).factors
          /\ FactorsOutside(ScoreOf(b), {4}) = FactorsOutside(Val(result), {4})

\* mint authority active, creator holds 0%, 2 holders, top-10 share 100%,
\* liquidity 500 USD
ScenarioA(a) ==
    /\ a.creatorAnalysis.canMintUnlimited = Some(TRUE)
    /\ IsDef(a.holderStats)
    /\ Val(a.holderStats).creatorHoldPercent = Some(0)
    /\ Val(a.holderStats).totalHolders = 2
    /\ Val(a.holderStats).top10Percent = Pct(100)
    /\ IsDef(a.tokenMarket)
    /\ Val(a.tokenMarket).liquidityUsd = Some(500)

\* C13: in scenario A, whatever the other evidence, the score is at most 10,
\* the severity is "high", and unlimited_mint, creator_sold, very_few_holders,
\* extreme_concentration and low_liquidity are among the factors.
C13_ScenarioA ==
    (IsDef(result) /\ ScenarioA(args)) =>
        /\ Val(result).score <= 10
        /\ Val(result).severity = "high"
        /\ {"unlimited_mint", "creator_sold", "very_few_holders", "extreme_concentration",
            "low_liquidity"} \subseteq FactorIds(Val(result))

\* scenario A with the other evidence as favourable as it gets: an
\* established wallet with one token
C13_Witness ==
    /\ IsDef(result) /\ ScenarioA(args)
    /\ {"established_account", "first_or_few"} \subseteq FactorIds(Val(result))
    /\ BaseScore + ImpactSum(Val(result)) = -13
    /\ Val(result).score = 0

\* mint authority revoked, creator holds 15%, 500 holders, top-10 share 25%,
\* liquidity 80000 USD, one creation event in the sample, wallet age 200
\* days, no connected holders, at most 500 transactions, no fresh-holder data
ScenarioB(a) ==
    /\ a.creatorAnalysis.canMintUnlimited = Some(FALSE)
    /\ a.creatorAnalysis.accountAgeDays = Some(Days(200))
    /\ a.creatorAnalysis.totalTxCount <= 500
    /\ Len(SelectSeq(a.creatorTxs, txLooksLikeTokenCreation)) = 1
    /\ IsDef(a.holderStats)
    /\ Val(a.holderStats).creatorHoldPercent = Some(Pct(15))
    /\ Val(a.holderStats).totalHolders = 500
    /\ Val(a.holderStats).top10Percent = Pct(25)
    /\ Val(a.holderStats).creatorConnectedHolders = None
    /\ IsDef(a.tokenMarket)
    /\ Val(a.tokenMarket).liquidityUsd = Some(80000)
    /\ Val(a.tokenMarket).freshHolders1dPercent = None
    /\ Val(a.tokenMarket).freshHolders7dPercent = None

\* C14: in scenario B the score is at least 90 and the severity is "low".
C14_ScenarioB ==
    (IsDef(result) /\ ScenarioB(args)) =>
        /\ Val(result).score >= 90
        /\ Val(result).severity = "low"

\* scenario B scored: six favourable factors, 98
C14_Witness ==
    /\ IsDef(result) /\ ScenarioB(args)
    /\ Val(result).score = 98
    /\ FactorIds(Val(result)) =
          {"fixed_supply", "creator_holds", "first_or_few", "established_account",
           "distributed_holders", "good_liquidity"}

\* C15: emissionStatus is "unlimited" exactly when the mint authority is
\* active, which is exactly when unlimited_mint is among the factors; in
\* every other case, an unknown authority included, it is "fixed".
C15_EmissionStatus ==
    IsDef(result) =>
        LET r == Val(result)
            active == args.creatorAnalysis.canMintUnlimited = Some(TRUE)
        IN /\ r.emissionStatus \in {"unlimited", "fixed"}
           /\ (r.emissionStatus = "unlimited") <=> active
           /\ active <=> ("unlimited_mint" \in FactorIds(r))
           /\ args.creatorAnalysis.canMintUnlimited = None => r.emissionStatus = "fixed"

\* a result for a mint whose authority is unknown: "fixed", with neither
\* emission factor
C15_Witness ==
    /\ IsDef(result)
    /\ args.creatorAnalysis.canMintUnlimited = None
    /\ Val(result).emissionStatus = "fixed"
    /\ FactorIds(Val(result)) \cap {"unlimited_mint", "fixed_supply"} = {}

\* and one for an active authority
C15_Unlimited ==
    /\ IsDef(result)
    /\ Val(result).emissionStatus = "unlimited"
    /\ "unlimited_mint" \in FactorIds(Val(result))

(***************************************************************************)
(* The holder aggregation on its own: the try block of GET, lines 250-294, *)
(* applied to a supplied list of token accounts and creator sample         *)
(***************************************************************************)
\* longest list of token accounts drawn from every combination of values
MaxAccounts == 3

\* largest balance in those lists
MaxAmount == 2

RECURSIVE WalletName(_)
\* a distinct wallet address for every i
WalletName(i) == IF i = 0 THEN "W" ELSE WalletName(i - 1) \o "x"

AccountValues ==
    {Account(o, n) : o \in {"H1", "H2", CreatorAddr}, n \in (-1)..MaxAmount}

RECURSIVE ListsUpTo(_)
\* every list of at most n account values
ListsUpTo(n) ==
    IF n = 0 THEN {<<>>}
    ELSE ListsUpTo(n - 1)
         \cup {Append(l, a) : l \in {x \in ListsUpTo(n - 1) : Len(x) = n - 1},
                              a \in AccountValues}

\* more wallets than the top-10 list holds, with growing balances, with equal
\* balances, and with the creator and a second account of the first wallet
Crowds ==
    {[i \in 1..(MaxOwners + 1) |-> Account(WalletName(i), i)],
     [i \in 1..(MaxOwners + 1) |-> Account(WalletName(i), 5)],
     [i \in 1..(MaxOwners + 1) |-> Account(WalletName(i), 7 * (i % 4) + 1)]
        \o <<Account(CreatorAddr, 9), Account(WalletName(1), 30)>>}

\* accounts without owner or amount, and an amount that is no integer
OddLists ==
    {<<[owner |-> None, amount |-> Some([digits |-> TRUE, n |-> 5])], Account("", 4)>>,
     <<[owner |-> Some("H1"), amount |-> None], Account("H2", 3)>>,
     <<[owner |-> None, amount |-> None]>>,
     <<Account("H1", 5), [owner |-> Some("H2"), amount |-> Some([digits |-> FALSE, n |-> 0])]>>}

\* creator samples, newest first: wallets paid once, twice, by native and by
\* token transfer, and a payment without timestamp
TransferSamples ==
    {<<>>,
     <<Payment(Now - Days(1), "H1"), Payment(Now - Days(2), "H2"),
       Payment(Now - Days(4), "H1")>>,
     <<HTx(Some("TRANSFER"), Some(Now - Days(1)), Some(CreatorAddr), None,
           Some(<<Transfer(Some(CreatorAddr), Some("H2"), Some(MintA)),
                  Transfer(Some("H2"), Some("H1"), Some(MintA))>>)),
       HTx(Some("TRANSFER"), None, Some(CreatorAddr),
           Some(<<Transfer(Some(CreatorAddr), Some(WalletName(12)), None),
                  Transfer(Some(CreatorAddr), None, None)>>), None),
       Payment(Now - Days(3), WalletName(1))>>}

HolderInput(accounts, creatorTxs) == [accounts |-> accounts, creatorTxs |-> creatorTxs]

HolderInputs ==
    {HolderInput(l, <<>>) : l \in ListsUpTo(MaxAccounts) \cup OddLists}
    \cup {HolderInput(l, t) :
            l \in Crowds \cup {<<Account("H1", 600), Account("H2", 300), Account(CreatorAddr, 100)>>,
                               <<Account("H2", 1), Account("H1", 2)>>},
            t \in TransferSamples}

HolderInit ==
    /\ HandlerOff
    /\ args \in HolderInputs
    /\ result = None
    /\ again = None

\* the try block run on the answer the provider gave, with a key it accepts
HolderCall ==
    /\ pc = "off"
    /\ result = None
    /\ LET e == [HELIUS_API_KEY |-> Some(LiveKey), BIRDEYE_API_KEY |-> None]
           res == JsonReply(200, ResultJson(Some([token_accounts |-> Some(args.accounts),
                                                  total |-> None])))
           r == getTokenAccountsByMint(e, res)
       IN result' = Some([holderStats |-> HolderStatsAfter(r, CreatorAddr, args.creatorTxs)])
    /\ UNCHANGED <<handlerVars, args, again>>

HolderNext == HolderCall

HolderSpec == HolderInit /\ [][HolderNext]_vars

(***************************************************************************)
(* Properties of the holder aggregation (checked under HolderSpec)         *)
(***************************************************************************)
\* every supplied amount is an integer literal
AllAmountsIntegers ==
    \A i \in 1..Len(args.accounts) :
        IsDef(args.accounts[i].amount) => Val(args.accounts[i].amount).digits

\* the owners named in the supplied accounts
SuppliedOwners ==
    {Val(args.accounts[i].owner) :
        i \in {j \in 1..Len(args.accounts) : IsDef(args.accounts[j].owner)}} \ {""}

\* the balance of owner o: the sum of the amounts of its accounts
BalanceOf(o) ==
    SumSeq([i \in 1..Len(args.accounts) |->
              IF args.accounts[i].owner = Some(o) /\ IsDef(args.accounts[i].amount)
              THEN Val(args.accounts[i].amount).n ELSE 0])

PositiveOwners == {o \in SuppliedOwners : BalanceOf(o) > 0}

\* the holderStats the aggregation produced
Produced == Val(result).holderStats

HasStats == IsDef(result) /\ IsDef(Produced)

\* C16: accounts of one owner are summed into one holder before ranking;
\* totalHolders is the number of distinct owners with positive summed
\* balance; topHolders has min(10, totalHolders) entries with distinct
\* owners in non-increasing balance order, and no holder left out has a
\* larger balance than one that is in.
C16_HoldersMergedAndRanked ==
    (HasStats /\ AllAmountsIntegers) =>
        LET hs == Val(Produced)
            top == hs.topHolders
            topOwners == {top[i].owner : i \in 1..Len(top)}
        IN /\ hs.totalHolders = Cardinality(PositiveOwners)
           /\ Len(top) = Min(10, hs.totalHolders)
           /\ Cardinality(topOwners) = Len(top)
           /\ \A i \in 1..Len(top) :
                 top[i].owner \in PositiveOwners /\ top[i].amountRaw = BalanceOf(top[i].owner)
           /\ \A i \in 1..(Len(top) - 1) : top[i].amountRaw >= top[i + 1].amountRaw
           /\ \A o \in PositiveOwners \ topOwners :
                 \A i \in 1..Len(top) : BalanceOf(o) <= top[i].amountRaw

\* more than ten holders, one of them with two accounts, not supplied in
\* balance order
C16_Witness ==
    /\ HasStats /\ AllAmountsIntegers
    /\ Val(Produced).totalHolders > 10
    /\ Len(Val(Produced).topHolders) = 10
    /\ Len(args.accounts) > Cardinality(SuppliedOwners)
    /\ \E i \in 1..(Len(args.accounts) - 1) :
          Val(args.accounts[i].amount).n < Val(args.accounts[i + 1].amount).n

\* a percentage between 0 and 100
IsPercent(x) == 0 <= x /\ x <= Pct(100)

\* C17: when the positive balances sum to 0 (no owner has a positive
\* balance) holderStats is absent; when it is present, totalSupplyRaw > 0, totalHolders >= 1, and every topHolders
\* percent, top10Percent and creatorHoldPercent lies in [0,100].
C17_StatsAbsentOrWellFormed ==
    (IsDef(result) /\ AllAmountsIntegers) =>
        /\ PositiveOwners = {} => ~IsDef(Produced)
        /\ IsDef(Produced) =>
              LET hs == Val(Produced)
              IN /\ hs.totalSupplyRaw > 0
                 /\ hs.totalHolders >= 1
                 /\ \A i \in 1..Len(hs.topHolders) : IsPercent(hs.topHolders[i].percent)
                 /\ IsPercent(hs.top10Percent)
                 /\ IsDef(hs.creatorHoldPercent) => IsPercent(Val(hs.creatorHoldPercent))

\* the sum of the percent values of the topHolders entries
TopPercentSum ==
    SumSeq([i \in 1..Len(Val(Produced).topHolders) |-> Val(Produced).topHolders[i].percent])

\* the sum of the balances of the topHolders entries
TopBalanceSum ==
    SumSeq([i \in 1..Len(Val(Produced).topHolders) |-> Val(Produced).topHolders[i].amountRaw])

\* C18 as stated: top10Percent equals the sum of the percent values of the
\* entries of topHolders.
C18_Top10IsSumOfPercents ==
    HasStats => Val(Produced).top10Percent = TopPercentSum

\* C18, amended: top10Percent is the share of the summed balances of the
\* topHolders entries, rounded down to a hundredth of a percent; it is never
\* below the sum of the entries' percent values and exceeds it by less than
\* one hundredth per entry.
C18_Top10IsShareOfSum ==
    HasStats =>
        LET hs == Val(Produced)
        IN /\ hs.top10Percent = (TopBalanceSum * 10000) \div hs.totalSupplyRaw
           /\ TopPercentSum <= hs.top10Percent
           /\ hs.top10Percent - TopPercentSum < Len(hs.topHolders)

\* three holders of a third each: 33.33 + 33.33 + 33.33 against 100.00
C18_Witness ==
    /\ HasStats
    /\ Len(Val(Produced).topHolders) = 3
    /\ TopPercentSum = 9999
    /\ Val(Produced).top10Percent = 10000

\* the percent value the handler's formula gives the holder o
PercentOfHolder(o) == PercentOf(BalanceOf(o), Val(Produced).totalSupplyRaw)

RECURSIVE SumOfPercents(_)
\* the sum of the percent values of the holders in set
SumOfPercents(set) ==
    IF set = {} THEN 0
    ELSE LET x == CHOOSE y \in set : TRUE
         IN PercentOfHolder(x) + SumOfPercents(set \ {x})

\* C19: the percent values of all holders sum to 100 within 0.01 per holder;
\* with at most ten holders the topHolders percent values do.
C19_PercentsSumTo100 ==
    (HasStats /\ AllAmountsIntegers) =>
        LET n == Cardinality(PositiveOwners)
            all == SumOfPercents(PositiveOwners)
        IN /\ Pct(100) - n <= all /\ all <= Pct(100) + n
           /\ n <= 10 =>
                 /\ Pct(100) - n <= TopPercentSum
                 /\ TopPercentSum <= Pct(100) + n

\* more than ten holders whose percent values sum to less than 100
C19_Witness ==
    /\ HasStats /\ AllAmountsIntegers
    /\ Cardinality(PositiveOwners) > 10
    /\ SumOfPercents(PositiveOwners) < Pct(100)
    /\ TopPercentSum < SumOfPercents(PositiveOwners)

\* and at most ten holders whose topHolders percent values do
C19_FewHolders ==
    /\ HasStats /\ AllAmountsIntegers
    /\ Cardinality(PositiveOwners) = 3
    /\ TopPercentSum = Pct(100) - 1

\* tx.timestamp ?? 0
StampOf(tx) == IF IsDef(tx.timestamp) THEN Val(tx.timestamp) ELSE 0

\* tx holds a native or token transfer sent by the creator to wallet o
PaysTo(tx, o) ==
    \E k \in 1..Len(TransfersOf(tx)) :
        /\ TransfersOf(tx)[k].fromUserAccount = Some(CreatorAddr)
        /\ TransfersOf(tx)[k].toUserAccount = Some(o)

\* the timestamps of the sample's transactions that pay wallet o
PaidStamps(o) ==
    {StampOf(args.creatorTxs[i]) :
        i \in {j \in 1..Len(args.creatorTxs) : PaysTo(args.creatorTxs[j], o)}}

Earliest(stamps) == CHOOSE t \in stamps : \A u \in stamps : t <= u

\* the topHolders entries whose owner the creator paid in the sample
PaidTopHolders ==
    SelectSeq(Val(Produced).topHolders, LAMBDA h : h.owner # "" /\ PaidStamps(h.owner) # {})

\* creatorConnectedHolders is the paid part of topHolders, in topHolders order
\* and with the same percent
ConnectedAreThePaidTopHolders ==
    HasStats =>
        /\ Len(ConnectedOf(Produced)) = Len(PaidTopHolders)
        /\ \A i \in 1..Len(PaidTopHolders) :
              /\ ConnectedOf(Produced)[i].owner = PaidTopHolders[i].owner
              /\ ConnectedOf(Produced)[i].percent = PaidTopHolders[i].percent

\* C20: creatorConnectedHolders is exactly the subset of topHolders whose
\* owner received a transfer sent by the creator in the sample, in topHolders
\* order and with the same percent, and each firstReceivedAt is the minimum
\* timestamp over the matching transfers to that owner.
C20_ConnectedWithEarliestTransfer ==
    /\ ConnectedAreThePaidTopHolders
    /\ HasStats =>
          \A i \in 1..Len(ConnectedOf(Produced)) :
              LET h == ConnectedOf(Produced)[i]
              IN PaidStamps(h.owner) # {} =>
                    h.firstReceivedAt = Some(Earliest(PaidStamps(h.owner)))

(***************************************************************************)
(* The market aggregation on its own: fetchDexScreenerData applied to      *)
(* bounded pair lists, src/unnamed/part_002, 82-146                        *)
(***************************************************************************)
MaxPairs == 2

\* a DexPairRaw value
DexPair(dexId, usd, h24, baseAddress, baseSymbol, quoteSymbol, pairAddress) ==
    [dexId |-> dexId, usd |-> usd, h24 |-> h24, baseAddress |-> baseAddress,
     baseSymbol |-> baseSymbol, quoteSymbol |-> quoteSymbol, pairAddress |-> pairAddress]

\* txns.h24 with its buys and sells
H24(buys, sells) == Some([buys |-> Some(buys), sells |-> Some(sells)])

\* pairs of the mint against SOL or USDC, on two venues, with liquidity
\* absent, zero or positive and with trade counts absent, zero or positive
PairValues ==
    {DexPair(Some(d), usd, h24, Some(MintA), Some("TKN"), Some(q), None) :
        d \in {"raydium", "pumpfun"},
        usd \in {None, Some(0), Some(100), Some(200)},
        h24 \in {None, H24(0, 0), H24(1, 2)},
        q \in {"SOL", "USDC"}}

\* the list l with pairAddress "p1", "p2", ... in list order
Addressed(l) ==
    [i \in 1..Len(l) |->
        [l[i] EXCEPT !.pairAddress =
            Some(CASE i = 1 -> "p1" [] i = 2 -> "p2" [] i = 3 -> "p3" [] OTHER -> "p4")]]

RECURSIVE PairListsUpTo(_)
\* every list of at most n pair values
PairListsUpTo(n) ==
    IF n = 0 THEN {<<>>}
    ELSE PairListsUpTo(n - 1)
         \cup {Append(l, a) : l \in {x \in PairListsUpTo(n - 1) : Len(x) = n - 1},
                              a \in PairValues}

\* longer lists: three pairs against one symbol with a tie at the top, the
\* mint as quote token, symbols and fields missing
OddPairLists ==
    {<<DexPair(Some("raydium"), Some(100), H24(1, 0), Some(MintA), Some("TKN"), Some("SOL"), None),
       DexPair(Some("orca"), Some(300), H24(2, 5), Some(MintA), Some("TKN"), Some("SOL"), None),
       DexPair(Some("pumpfun"), Some(300), H24(0, 1), Some(MintA), Some("TKN"), Some("SOL"), None),
       DexPair(Some("meteora"), Some(50), None, Some(MintA), Some("TKN"), Some("USDC"), None)>>,
     <<DexPair(Some("raydium"), Some(70), H24(1, 1), Some(MintB), Some("BONK"), Some("TKN"), None),
       DexPair(Some(" orca "), Some(20), H24(1, 1), Some(MintA), Some("TKN"), Some("BONK"), None),
       DexPair(None, Some(10), H24(3, 0), None, None, None, None)>>,
     <<DexPair(None, None, Some([buys |-> None, sells |-> Some(4)]), Some(MintA), None, None, None),
       DexPair(Some(""), Some(0), None, Some(MintA), Some("TKN"), Some("?"), None)>>}

DexInputs == {[pairs |-> Addressed(l)] : l \in PairListsUpTo(MaxPairs) \cup OddPairLists}

DexInit ==
    /\ HandlerOff
    /\ args \in DexInputs
    /\ result = None
    /\ again = None

\* fetchDexScreenerData on a 200 answer carrying the pair list
DexCall ==
    /\ pc = "off"
    /\ result = None
    /\ result' = Some(fetchDexScreenerData(MintA, JsonReply(200, ArrayJson(args.pairs))))
    /\ UNCHANGED <<handlerVars, args, again>>

DexNext == DexCall

DexSpec == DexInit /\ [][DexNext]_vars

(***************************************************************************)
(* Properties of the market aggregation (checked under DexSpec)            *)
(***************************************************************************)
\* pair.liquidity?.usd ?? 0
UsdOf(p) == IF IsDef(p.usd) THEN Val(p.usd) ELSE 0

BuysOf(p) == IF IsDef(p.h24) /\ IsDef(Val(p.h24).buys) THEN Val(Val(p.h24).buys) ELSE 0

SellsOf(p) == IF IsDef(p.h24) /\ IsDef(Val(p.h24).sells) THEN Val(Val(p.h24).sells) ELSE 0

\* the counter-asset symbol of a supplied pair
SymbolOf(p) ==
    IF p.baseAddress = Some(MintA)
    THEN (IF IsDef(p.quoteSymbol) THEN Val(p.quoteSymbol) ELSE "?")
    ELSE (IF IsDef(p.baseSymbol) THEN Val(p.baseSymbol) ELSE "?")

TotalUsd == SumSeq([i \in 1..Len(args.pairs) |-> UsdOf(args.pairs[i])])

TotalBuys == SumSeq([i \in 1..Len(args.pairs) |-> BuysOf(args.pairs[i])])

TotalSells == SumSeq([i \in 1..Len(args.pairs) |-> SellsOf(args.pairs[i])])

\* the pairs list of the returned object, empty when the field is absent
ReturnedPairs == IF IsDef(Val(result).pairs) THEN Val(Val(result).pairs) ELSE <<>>

\* pairs holds at most one entry per counter-asset symbol, each carrying the
\* liquidity, venue id and pair address of a highest-liquidity pair of its symbol
OneEntryPerSymbol ==
    /\ \A i, j \in 1..Len(ReturnedPairs) :
          i # j => ReturnedPairs[i].quoteSymbol # ReturnedPairs[j].quoteSymbol
    /\ \A i \in 1..Len(ReturnedPairs) :
          \E k \in 1..Len(args.pairs) :
              /\ SymbolOf(args.pairs[k]) = ReturnedPairs[i].quoteSymbol
              /\ UsdOf(args.pairs[k]) = ReturnedPairs[i].liquidityUsd
              /\ args.pairs[k].dexId = ReturnedPairs[i].dexId
              /\ args.pairs[k].pairAddress = ReturnedPairs[i].pairAddress
              /\ \A m \in 1..Len(args.pairs) :
                    SymbolOf(args.pairs[m]) = ReturnedPairs[i].quoteSymbol
                        => UsdOf(args.pairs[m]) <= UsdOf(args.pairs[k])

\* C21: for every non-empty list of pairs, liquidityUsd is the sum of the
\* pairs' liquidity, buys24h and sells24h are the sums of the pairs' counts,
\* txCount24h is buys24h + sells24h, and pairs holds at most one entry per
\* counter-asset symbol, carrying the data of the highest-liquidity pair.
C21_SumsAndBestPairPerSymbol ==
    (IsDef(result) /\ Len(args.pairs) > 0) =>
        /\ Val(result).liquidityUsd = Some(TotalUsd)
        /\ Val(result).buys24h = Some(TotalBuys)
        /\ Val(result).sells24h = Some(TotalSells)
        /\ Val(result).txCount24h = Some(TotalBuys + TotalSells)
        /\ OneEntryPerSymbol

\* what the aggregation does deliver: each sum when it is positive and an
\* absent field when it is zero
SumsReportedWhenPositive ==
    (IsDef(result) /\ Len(args.pairs) > 0) =>
        /\ Val(result).liquidityUsd = PositiveOrNone(TotalUsd)
        /\ Val(result).buys24h = PositiveOrNone(TotalBuys)
        /\ Val(result).sells24h = PositiveOrNone(TotalSells)
        /\ Val(result).txCount24h = PositiveOrNone(TotalBuys + TotalSells)
        /\ OneEntryPerSymbol

(***************************************************************************)
(* The two creation classifiers on their own: isCreationTx                 *)
(* (src/unnamed/part_002, 37-43) and txLooksLikeTokenCreation              *)
(* (src/src/lib/helius.ts, 394-403) applied to bounded samples             *)
(***************************************************************************)
MaxTags == 3

\* type tags: absent, empty, in either taxonomy, in the scorer's only, caught
\* by the substring fallback only, and not a creation at all
TypeTags ==
    {None, Some(""), Some("CREATE_MASTER_EDITION"), Some("create_master_edition_v2"),
     Some("MINT_TO"), Some("COMPRESSED_MINT"), Some("Initialize_Account"),
     Some("TRANSFER")}

RECURSIVE TagListsUpTo(_)
\* every sample of at most n transactions over the type tags
TagListsUpTo(n) ==
    IF n = 0 THEN {<<>>}
    ELSE TagListsUpTo(n - 1)
         \cup {Append(l, Tx(t)) : l \in {x \in TagListsUpTo(n - 1) : Len(x) = n - 1},
                                  t \in TypeTags}

\* the orders in which n transactions can be arranged
Orders(n) == {p \in [1..n -> 1..n] : \A i, j \in 1..n : i # j => p[i] # p[j]}

Reordered(sample, order) == [i \in 1..Len(sample) |-> sample[order[i]]]

\* creator.estimatedTokensCreated of the result computed on a sample
EstimateOn(sample) ==
    computeRiskScore("MintA", Creator(None, None, 500), sample, None, None)
        .creator.estimatedTokensCreated

ClassifyInit ==
    /\ HandlerOff
    /\ \E l \in TagListsUpTo(MaxTags) : \E p \in Orders(Len(l)) :
          args = [sample |-> l, order |-> p]
    /\ result = None
    /\ again = None

\* both classifiers on every transaction of the sample, and the scorer's
\* estimate on the sample as given and as reordered
ClassifyCall ==
    /\ pc = "off"
    /\ result = None
    /\ result' = Some([collector |-> [i \in 1..Len(args.sample) |-> isCreationTx(args.sample[i])],
                       scorer |-> [i \in 1..Len(args.sample) |->
                                      txLooksLikeTokenCreation(args.sample[i])],
                       estimated |-> EstimateOn(args.sample),
                       reordered |-> EstimateOn(Reordered(args.sample, args.order))])
    /\ UNCHANGED <<handlerVars, args, again>>

ClassifyNext == ClassifyCall

ClassifySpec == ClassifyInit /\ [][ClassifyNext]_vars

(***************************************************************************)
(* Properties of the classifiers (checked under ClassifySpec)              *)
(***************************************************************************)
\* C22: the two classifiers give the same verdict on every type tag although
\* the scorer's taxonomy alone holds CREATE_MASTER_EDITION, and the estimate
\* max(count, 1) is the same for every reordering of the sample.
C22_ClassifiersAgreeAnyOrder ==
    /\ TOKEN_CREATION_TYPES \ CREATION_TYPES = {"CREATE_MASTER_EDITION"}
    /\ CREATION_TYPES \subseteq TOKEN_CREATION_TYPES
    /\ IsDef(result) =>
          /\ Val(result).collector = Val(result).scorer
          /\ Val(result).reordered = Val(result).estimated
          /\ Val(result).estimated =
                Max(Cardinality({i \in 1..Len(args.sample) : Val(result).scorer[i]}), 1)

\* a reordered sample that starts with a tag only the scorer's taxonomy
\* holds, has a tag only the fallback catches and one that is no creation
C22_Witness ==
    /\ IsDef(result)
    /\ Len(args.sample) = 3
    /\ args.sample[1].type = Some("CREATE_MASTER_EDITION")
    /\ args.sample[2].type = Some("COMPRESSED_MINT")
    /\ args.sample[3].type = Some("TRANSFER")
    /\ args.order = <<3, 1, 2>>
    /\ Val(result).collector = <<TRUE, TRUE, FALSE>>
    /\ Val(result).estimated = 2

(***************************************************************************)
(* Properties of the scorer's rules (checked under ScoreSpec)              *)
(***************************************************************************)
\* C23: a call leaves every argument with the field values it had before,
\* and the returned holderStats and tokenMarket are the supplied evidence.
C23_CallLeavesArguments ==
    [][ScoreCall =>
          /\ args' = args
          /\ Val(result').holderStats = args.holderStats
          /\ Val(result').tokenMarket = args.tokenMarket]_vars

\* what a call does leave alone: every argument field but the creator's
\* estimatedTokensCreated, and the returned evidence
CallLeavesAllButEstimate ==
    [][ScoreCall =>
          /\ [args' EXCEPT !.creatorAnalysis.estimatedTokensCreated = 0]
                = [args EXCEPT !.creatorAnalysis.estimatedTokensCreated = 0]
          /\ Val(result').holderStats = args.holderStats
          /\ Val(result').tokenMarket = args.tokenMarket]_vars

\* the factors of the result whose id is one of ids, in result order
FactorsWithIds(ids) == SelectSeq(Val(result).factors, LAMBDA f : f.id \in ids)

HolderCountIds == {"very_few_holders", "few_holders", "low_holder_count"}

\* the one factor a rule pushes
Factor(id, severity, impact) == [id |-> id, severity |-> severity, impact |-> impact]

HolderCountTiersFromOne ==
    (IsDef(result) /\ IsDef(args.holderStats)) =>
        LET n == Val(args.holderStats).totalHolders
        IN FactorsWithIds(HolderCountIds) =
              IF n <= 0 THEN <<>>
              ELSE IF n <= 2 THEN <<Factor("very_few_holders", "critical", -18)>>
              ELSE IF n <= 5 THEN <<Factor("few_holders", "warning", -10)>>
              ELSE IF n <= 15 THEN <<Factor("low_holder_count", "warning", -4)>>
              ELSE <<>>

\* the creatorConnectedHolders list supplied, empty when absent
SuppliedConnected == ConnectedOf(args.holderStats)

SuppliedConnectedPercent ==
    SumSeq([i \in 1..Len(SuppliedConnected) |-> SuppliedConnected[i].percent])

\* C25: a non-empty creatorConnectedHolders emits exactly one factor
\* creator_connected_holders, critical with impact -14 iff the list has at
\* least 3 entries or their percents sum to at least 20, otherwise warning
\* with impact -6; an empty or absent list emits none.
C25_ConnectedHoldersFactor ==
    IsDef(result) =>
        FactorsWithIds({"creator_connected_holders"}) =
            IF Len(SuppliedConnected) = 0 THEN <<>>
            ELSE IF Len(SuppliedConnected) >= 3 \/ SuppliedConnectedPercent >= Pct(20)
                 THEN <<Factor("creator_connected_holders", "critical", -14)>>
                 ELSE <<Factor("creator_connected_holders", "warning", -6)>>

\* one connected holder with exactly 20 percent: critical
C25_Witness ==
    /\ IsDef(result)
    /\ Len(SuppliedConnected) = 1
    /\ SuppliedConnectedPercent = Pct(20)
    /\ FactorsWithIds({"creator_connected_holders"})
          = <<Factor("creator_connected_holders", "critical", -14)>>

\* two connected holders just below 20 percent together: warning
C25_TwoBelowThreshold ==
    /\ IsDef(result)
    /\ Len(SuppliedConnected) = 2
    /\ SuppliedConnectedPercent = Pct(20) - 1
    /\ FactorsWithIds({"creator_connected_holders"})
          = <<Factor("creator_connected_holders", "warning", -6)>>

\* C26: the factor ids of every result are pairwise distinct and there are
\* at most 10 factors, one per rule.
C26_FactorIdsDistinct ==
    IsDef(result) =>
        LET fs == Val(result).factors
        IN /\ Len(fs) <= 10
           /\ \A i, j \in 1..Len(fs) : i # j => fs[i].id # fs[j].id

\* a result in which every one of the ten rules pushed its factor
C26_Witness ==
    /\ IsDef(result)
    /\ Len(Val(result).factors) = 10
    /\ "very_fresh_holders" \in FactorIds(Val(result))

\* 50 plus the deltas the rules apply to bundle a, before the clamp
RawScoreOf(a) ==
    LET createdCount == Len(SelectSeq(a.creatorTxs, txLooksLikeTokenCreation))
        ca2 == [a.creatorAnalysis EXCEPT !.estimatedTokensCreated = Max(createdCount, 1)]
        rules == RuleResults(ca2, createdCount, a.holderStats, a.tokenMarket)
    IN BaseScore + SumSeq([i \in 1..Len(rules) |-> rules[i].score])

\* C27: the unclamped score is at most 98, so the returned score is never 99
\* or 100 and only the lower clamp at 0 can change the value.
C27_UpperClampNeverEngaged ==
    IsDef(result) =>
        /\ RawScoreOf(args) <= 98
        /\ Val(result).score \notin {99, 100}
        /\ Val(result).score # RawScoreOf(args) =>
              (RawScoreOf(args) < 0 /\ Val(result).score = 0)

\* the largest unclamped score, returned as it is
C27_Witness ==
    /\ IsDef(result)
    /\ RawScoreOf(args) = 98
    /\ Val(result).score = RawScoreOf(args)

\* an unclamped score below 0, raised to 0 by the lower clamp
C27_LowerClamp ==
    /\ IsDef(result)
    /\ RawScoreOf(args) < 0
    /\ Val(result).score = 0

(***************************************************************************)
(* Further properties of the request handler (checked under Spec)          *)
(***************************************************************************)
\* C28: in every result the handler returns, creator.totalTxCount is at most
\* 100, the limit of the sample request, and very_high_activity is not among
\* the factors.
C28_SampleBoundsActivity ==
    AnsweredWithResult =>
        /\ Val(Val(response).result).creator.totalTxCount = Len(creatorTxsDesc)
        /\ Val(Val(response).result).creator.totalTxCount <= 100
        /\ "very_high_activity" \notin FactorIds(Val(Val(response).result))

\* a creator with more than 100 transactions: the sample is cut at the limit
C28_Witness ==
    /\ AnsweredWithResult
    /\ Val(Val(response).result).creator.totalTxCount = CreatorSampleLimit

\* the pairs the market-data provider holds for the mint
HeldPairs == Val(chain).dex.value.items

\* the summed liquidity of the pairs the provider holds
HeldLiquidity ==
    SumSeq([i \in 1..Len(HeldPairs) |->
              IF IsDef(HeldPairs[i].usd) THEN Val(HeldPairs[i].usd) ELSE 0])

\* the request was answered with a result and the provider had returned at
\* least one pair for the mint
AnsweredWithPairs ==
    /\ AnsweredWithResult
    /\ "dex" \notin failed
    /\ Len(HeldPairs) > 0

\* C29: whenever the provider returns at least one pair, the result's
\* tokenMarket.liquidityUsd is present and equals the summed pair liquidity;
\* with all pairs at zero it is 0 and low_liquidity (-12) is among the factors.
C29_LiquidityPresentWithPairs ==
    AnsweredWithPairs =>
        LET r == Val(Val(response).result)
        IN /\ IsDef(r.tokenMarket)
           /\ Val(r.tokenMarket).liquidityUsd = Some(HeldLiquidity)
           /\ HeldLiquidity = 0 => "low_liquidity" \in FactorIds(r)

\* what the handler does deliver: the summed liquidity when it is positive,
\* no value and no liquidity factor when it is zero
LiquidityPresentWhenPositive ==
    AnsweredWithPairs =>
        LET r == Val(Val(response).result)
        IN /\ IsDef(r.tokenMarket)
           /\ Val(r.tokenMarket).liquidityUsd = PositiveOrNone(HeldLiquidity)
           /\ HeldLiquidity = 0 =>
                 FactorIds(r) \cap {"low_liquidity", "moderate_liquidity", "good_liquidity"} = {}
           /\ (HeldLiquidity > 0 /\ HeldLiquidity < 2000) => "low_liquidity" \in FactorIds(r)

\* C30: the creator's own address is never reported in
\* creatorConnectedHolders, whatever transfers the creator's sample holds and
\* also when the creator is among the top holders.
C30_CreatorNeverConnected ==
    AnsweredWithResult =>
        LET r == Val(Val(response).result)
            connected == ConnectedOf(r.holderStats)
        IN \A i \in 1..Len(connected) : connected[i].owner # r.creator.creatorAddress

\* the creator is reported as connected only when the sample holds a transfer
\* whose sender and recipient are both the creator
CreatorConnectedOnlyBySelfTransfer ==
    AnsweredWithResult =>
        LET r == Val(Val(response).result)
            connected == ConnectedOf(r.holderStats)
            creator == r.creator.creatorAddress
        IN (\E i \in 1..Len(connected) : connected[i].owner = creator) =>
              \E j \in 1..Len(creatorTxsDesc) :
                 \E k \in 1..Len(TransfersOf(creatorTxsDesc[j])) :
                    /\ TransfersOf(creatorTxsDesc[j])[k].fromUserAccount = Some(creator)
                    /\ TransfersOf(creatorTxsDesc[j])[k].toUserAccount = Some(creator)

====
